---- MODULE Spec2Model ----
(***************************************************************************)
(* The incremental state / change-detection core of translatronx: the      *)
(* SQLite ledger, the incremental planner with its manual-override         *)
(* detector, the validation pipeline, the atomic file writer and the       *)
(* TranslationCompiler orchestrator (sync, retryFailed).                   *)
(*                                                                         *)
(* Representation.                                                         *)
(*  - A text is a sequence of tokens; the string it stands for is the      *)
(*    concatenation of the tokens.  " " is the whitespace token, every     *)
(*    other token is a word or a placeholder.                              *)
(*  - computeHash is SHA-256; it is modelled as an injective function,     *)
(*    Hash(t) = <<"sha256", t>>.  The empty string (a target_hash of '')   *)
(*    is <<>>, SQL NULL / JS null is <<"null">>.                           *)
(*  - An optional argument or nullable column is <<>> when absent and      *)
(*    <<v>> when present.                                                  *)
(*  - A table is the set of its rows; a JSON file is the set of its        *)
(*    leaves [path, value].                                                *)
(***************************************************************************)
EXTENDS Integers, Sequences, FiniteSets, TLC

VARIABLES
    source_hashes,   \* ledger table source_hashes
    sync_status,     \* ledger table sync_status
    run_history,     \* ledger table run_history
    targetFiles,     \* shortCode -> content of the language's target file
    sourceUnits,     \* what the extractor returns for the current source files
    pc,              \* "idle", "returned" (a call handed back its value), "batch", "results"
    run,             \* locals of the sync / retryFailed call in progress
    pre,             \* ledger and files as they stood when the call began
    sent,            \* <<keyPath, lang>> pairs handed to the provider by the call
    wrote,           \* <<keyPath, lang>> pairs written to a target file by the call
    last,            \* the last operation, its arguments and its return value
    ops              \* number of operations made so far (bounded exploration)

vars == <<source_hashes, sync_status, run_history, targetFiles, sourceUnits,
          pc, run, pre, sent, wrote, last, ops>>

ledgerVars == <<source_hashes, sync_status, run_history>>

-----------------------------------------------------------------------------
(* Values *)

Null == <<"null">>
EmptyStr == <<>>
None == <<>>
Some(v) == <<v>>

Statuses == {"CLEAN", "DIRTY", "FAILED", "MANUAL", "SKIPPED"}

Keys == {"greeting", "nav.home"}

\* keyPath.split('.')
KeySegments(k) ==
    CASE k = "greeting" -> <<"greeting">>
      [] k = "nav.home" -> <<"nav", "home">>
      [] k = "nav.about" -> <<"nav", "about">>
      [] k = "nav.home.title" -> <<"nav", "home", "title">>
      [] OTHER -> <<k>>

TargetLanguages ==
    << [language |-> "French", shortCode |-> "fr"],
       [language |-> "German", shortCode |-> "de"] >>

Langs == {TargetLanguages[i].shortCode : i \in 1..Len(TargetLanguages)}

SourceTexts == { <<"Hello">>, <<"Hello", " ", "{name}">> }

ProviderTexts == { <<>>, <<"Bonjour">>, <<"Bonjour", " ", "{name}">> }

ManualTexts == { <<"Salut">> }

-----------------------------------------------------------------------------
(* Hashing utilities *)

computeHash(content) == <<"sha256", content>>

IsPlaceholderToken(tok) == tok \in {"{name}", "%s", "$1", "{{count}}"}

\* the matches of the five patterns inside one token: {{count}} is matched by
\* the {var} pattern as {{count} and by the {{var}} pattern as {{count}}
PlaceholderMatches(tok) ==
    CASE tok = "{{count}}" -> {"{{count}", "{{count}}"}
      [] tok \in {"{name}", "%s", "$1"} -> {tok}
      [] OTHER -> {}

\* extractPlaceholders: the literal matches, without duplicates
extractPlaceholders(text) ==
    UNION {PlaceholderMatches(text[i]) : i \in 1..Len(text)}

\* Array.sort() order of the placeholder strings
PlaceholderOrder == <<"$1", "%s", "{name}", "{{count}", "{{count}}">>

\* mutant: every placeholder is listed twice
InOrder_twice(S, order) ==
    LET once == SelectSeq(order, LAMBDA x : x \in S) IN once \o once

\* the members of S in the given order (iteration of a Set built from a sorted array)
InOrder(S, order) == SelectSeq(order, LAMBDA x : x \in S)

Lower(tok) ==
    CASE tok = "Hello" -> "hello"
      [] tok = "Acme" -> "acme"
      [] tok = "Bonjour" -> "bonjour"
      [] tok = "Salut" -> "salut"
      [] OTHER -> tok

toLowerCase(text) == [i \in 1..Len(text) |-> Lower(text[i])]

RECURSIVE trimStart(_)
trimStart(text) ==
    IF text # <<>> /\ Head(text) = " " THEN trimStart(Tail(text)) ELSE text

RECURSIVE trimEnd(_)
trimEnd(text) ==
    IF text # <<>> /\ text[Len(text)] = " "
    THEN trimEnd(SubSeq(text, 1, Len(text) - 1))
    ELSE text

trim(text) == trimEnd(trimStart(text))

\* text.split(/\s+/) as the set of the words; '' splits into the one word ''
RECURSIVE splitWords(_, _)
splitWords(text, word) ==
    IF text = <<>> THEN {word}
    ELSE IF Head(text) = " "
         THEN (IF word = <<>> THEN {} ELSE {word}) \cup splitWords(Tail(text), <<>>)
         ELSE splitWords(Tail(text), Append(word, Head(text)))

-----------------------------------------------------------------------------
(* Source units *)

createSourceUnit(keyPath, sourceText) ==
    [ keyPath      |-> keyPath,
      sourceText   |-> sourceText,
      sourceHash   |-> computeHash(sourceText),
      placeholders |-> extractPlaceholders(sourceText) ]

-----------------------------------------------------------------------------
(* Ledger *)

SourceRow(k, h, sig, runId) ==
    [key_path |-> k, value_hash |-> h, context_sig |-> sig, last_seen_run |-> runId]

StatusRow(k, l, th, st, mf, pv) ==
    [key_path |-> k, lang_code |-> l, target_hash |-> th, status |-> st,
     model_fingerprint |-> mf, prompt_version |-> pv]

\* x || null for an optional string and for an optional number
OrNullStr(x) == IF x = None \/ x = Some("") THEN None ELSE x
OrNullNum(x) == IF x = None \/ x = Some(0) THEN None ELSE x

getSourceHash(sh, keyPath) ==
    LET rows == {r \in sh : r.key_path = keyPath}
    IN  IF rows = {} THEN Null
        ELSE LET row == CHOOSE r \in rows : TRUE
             IN  IF row.value_hash = EmptyStr THEN Null ELSE row.value_hash

\* mutant: INSERT OR IGNORE, an existing row is kept
updateSourceHash_insertOnly(sh, keyPath, valueHash, contextSig, runId) ==
    IF \E r \in sh : r.key_path = keyPath THEN sh
    ELSE sh \cup {SourceRow(keyPath, valueHash, OrNullStr(contextSig), OrNullStr(runId))}

updateSourceHash(sh, keyPath, valueHash, contextSig, runId) ==
    {r \in sh : r.key_path # keyPath}
        \cup {SourceRow(keyPath, valueHash, OrNullStr(contextSig), OrNullStr(runId))}

\* a SQL NULL in the status column (JavaScript null bound to the statement)
NullStatus == "<null>"

\* schema line 45: CHECK(status IN (...)) rejects a row whose status is a value
\* outside the list; as every SQL CHECK it lets a NULL pass
statusCheckFails(status) == status # NullStatus /\ status \notin Statuses

HasSyncStatus(ss, keyPath, langCode) ==
    \E r \in ss : r.key_path = keyPath /\ r.lang_code = langCode

getSyncStatus(ss, keyPath, langCode) ==
    CHOOSE r \in ss : r.key_path = keyPath /\ r.lang_code = langCode

updateSyncStatus(ss, keyPath, langCode, targetHash, status, modelFingerprint, promptVersion) ==
    {r \in ss : ~(r.key_path = keyPath /\ r.lang_code = langCode)}
        \cup {StatusRow(keyPath, langCode, targetHash, status,
                        OrNullStr(modelFingerprint), OrNullNum(promptVersion))}

-----------------------------------------------------------------------------
(* Planner *)

BatchSize == 20
TokensPerUnit == 100

\* mutant: the sourceChanged branch is missing
needsTranslation_noSourceCheck(sh, ss, unit, targetLang) ==
    IF ~HasSyncStatus(ss, unit.keyPath, targetLang) THEN TRUE
    ELSE LET syncStatus == getSyncStatus(ss, unit.keyPath, targetLang)
         IN  IF syncStatus.status = "MANUAL" THEN FALSE
             ELSE syncStatus.status \in {"FAILED", "DIRTY"}

\* mutant: a CLEAN pair is retried like a FAILED one
needsTranslation_retryClean(sh, ss, unit, targetLang) ==
    LET storedHash == getSourceHash(sh, unit.keyPath)
        sourceChanged == storedHash # unit.sourceHash
    IN  IF ~HasSyncStatus(ss, unit.keyPath, targetLang) THEN TRUE
        ELSE LET syncStatus == getSyncStatus(ss, unit.keyPath, targetLang)
             IN  IF syncStatus.status = "MANUAL" THEN FALSE
                 ELSE IF sourceChanged THEN TRUE
                 ELSE syncStatus.status \in {"FAILED", "DIRTY", "CLEAN"}

\* mutant: a MANUAL pair is treated like any other pair
needsTranslation_manualIncluded(sh, ss, unit, targetLang) ==
    LET storedHash == getSourceHash(sh, unit.keyPath)
        sourceChanged == storedHash # unit.sourceHash
    IN  IF ~HasSyncStatus(ss, unit.keyPath, targetLang) THEN TRUE
        ELSE LET syncStatus == getSyncStatus(ss, unit.keyPath, targetLang)
             IN  IF sourceChanged THEN TRUE
                 ELSE syncStatus.status \in {"FAILED", "DIRTY", "MANUAL"}

\* the body of detectChanges' loop: is the unit pushed to needsTranslation?
needsTranslation(sh, ss, unit, targetLang) ==
    LET storedHash == getSourceHash(sh, unit.keyPath)
        sourceChanged == storedHash # unit.sourceHash
    IN  IF ~HasSyncStatus(ss, unit.keyPath, targetLang) THEN TRUE
        ELSE LET syncStatus == getSyncStatus(ss, unit.keyPath, targetLang)
             IN  IF syncStatus.status = "MANUAL" THEN FALSE
                 ELSE IF sourceChanged THEN TRUE
                 ELSE syncStatus.status \in {"FAILED", "DIRTY"}

\* mutant: one changed unit makes the whole list dirty
detectChanges_allOrNothing(sh, ss, units, targetLang) ==
    IF \E i \in 1..Len(units) : needsTranslation(sh, ss, units[i], targetLang)
    THEN units ELSE <<>>

detectChanges(sh, ss, units, targetLang) ==
    SelectSeq(units, LAMBDA u : needsTranslation(sh, ss, u, targetLang))

Min(a, b) == IF a < b THEN a ELSE b

\* mutant: the units after the last full batch are dropped
createBatches_fullOnly(units, targetLang, batchSize) ==
    [j \in 1..(Len(units) \div batchSize) |->
        LET batchUnits == SubSeq(units, (j - 1) * batchSize + 1, j * batchSize)
        IN  [ batchId          |-> <<"batch", targetLang, (j - 1) * batchSize>>,
              sourceUnits      |-> batchUnits,
              targetLanguage   |-> targetLang,
              deduplicationKey |->
                  computeHash([i \in 1..Len(batchUnits) |-> batchUnits[i].sourceHash]) ]]

createBatches(units, targetLang, batchSize) ==
    LET n == Len(units)
        count == (n + batchSize - 1) \div batchSize
    IN  [j \in 1..count |->
            LET batchUnits == SubSeq(units, (j - 1) * batchSize + 1, Min(j * batchSize, n))
            IN  [ batchId          |-> <<"batch", targetLang, (j - 1) * batchSize>>,
                  sourceUnits      |-> batchUnits,
                  targetLanguage   |-> targetLang,
                  deduplicationKey |->
                      computeHash([i \in 1..Len(batchUnits) |-> batchUnits[i].sourceHash]) ]]

\* in units of 1e-5 USD: (totalUnits * 100 / 1000) * 0.01 USD
estimateCost(totalUnits) == totalUnits * TokensPerUnit

RECURSIVE planLoop(_, _, _, _, _)
planLoop(sh, ss, units, langs, acc) ==
    IF langs = <<>> THEN acc
    ELSE LET lang == Head(langs)
             unitsNeedingTranslation == detectChanges(sh, ss, units, lang.shortCode)
         IN  IF Len(unitsNeedingTranslation) = 0
             THEN planLoop(sh, ss, units, Tail(langs), acc)
             ELSE planLoop(sh, ss, units, Tail(langs),
                    [ batches    |-> acc.batches \o
                                     createBatches(unitsNeedingTranslation, lang.shortCode, BatchSize),
                      totalUnits |-> acc.totalUnits + Len(unitsNeedingTranslation) ])

createPlan(sh, ss, units, targetLanguages) ==
    LET r == planLoop(sh, ss, units, targetLanguages, [batches |-> <<>>, totalUnits |-> 0])
    IN  [ batches       |-> r.batches,
          totalUnits    |-> r.totalUnits,
          estimatedCost |-> estimateCost(r.totalUnits) ]

-----------------------------------------------------------------------------
(* Manual-override detector *)

\* mutant: only the MANUAL status counts, a drifted CLEAN hash does not
isManualOverride_statusOnly(ss, keyPath, langCode, currentHash) ==
    IF ~HasSyncStatus(ss, keyPath, langCode) THEN FALSE
    ELSE getSyncStatus(ss, keyPath, langCode).status = "MANUAL"

isManualOverride(ss, keyPath, langCode, currentHash) ==
    IF ~HasSyncStatus(ss, keyPath, langCode) THEN FALSE
    ELSE LET syncStatus == getSyncStatus(ss, keyPath, langCode)
         IN  IF syncStatus.status = "MANUAL" THEN TRUE
             ELSE IF syncStatus.status = "CLEAN" /\ syncStatus.target_hash # currentHash THEN TRUE
             ELSE FALSE

\* mutant: the key is marked in every language that has a row
markAsManualOverride_allLangs(ss, keyPath, langCode, targetHash) ==
    { IF r.key_path = keyPath THEN [r EXCEPT !.status = "MANUAL"] ELSE r :
          r \in updateSyncStatus(ss, keyPath, langCode, targetHash, "MANUAL", None, None) }

markAsManualOverride(ss, keyPath, langCode, targetHash) ==
    updateSyncStatus(ss, keyPath, langCode, targetHash, "MANUAL", None, None)

-----------------------------------------------------------------------------
(* Validation pipeline *)

DefaultMaxLengthRatio == 3

\* the validation section of the configuration a compiler runs with
DefaultValidation ==
    [ preservePlaceholders |-> TRUE,
      maxLengthRatio       |-> DefaultMaxLengthRatio,
      preventSourceLeakage |-> TRUE,
      brandNames           |-> <<>> ]

TokenLength(tok) ==
    CASE tok = " "       -> 1
      [] tok = "Hello"   -> 5
      [] tok = "hello"   -> 5
      [] tok = "Salut"   -> 5
      [] tok = "Bonjour" -> 7
      [] tok = "{name}"  -> 6
      [] tok = "Acme"    -> 4
      [] tok = "acme"    -> 4
      [] tok = "{{count}}" -> 9
      [] OTHER           -> 2

RECURSIVE TextLength(_)
TextLength(text) ==
    IF text = <<>> THEN 0 ELSE TokenLength(Head(text)) + TextLength(Tail(text))

\* text.includes(token)
Includes(text, tok) == \E i \in 1..Len(text) : text[i] = tok

ValidationError(type, field) == [type |-> type, field |-> field]

\* mutant: placeholders the translation adds are not reported
validatePlaceholders_missingOnly(sourceUnit, translatedText) ==
    LET sourcePlaceholders == sourceUnit.placeholders
        translatedPlaceholders == extractPlaceholders(translatedText)
        missing == InOrder(sourcePlaceholders \ translatedPlaceholders, PlaceholderOrder)
    IN  [i \in 1..Len(missing) |-> ValidationError("MISSING_PLACEHOLDER", missing[i])]

validatePlaceholders(sourceUnit, translatedText) ==
    LET sourcePlaceholders == sourceUnit.placeholders
        translatedPlaceholders == extractPlaceholders(translatedText)
        missing == InOrder(sourcePlaceholders \ translatedPlaceholders, PlaceholderOrder)
        extra == InOrder(translatedPlaceholders \ sourcePlaceholders, PlaceholderOrder)
    IN  [i \in 1..Len(missing) |-> ValidationError("MISSING_PLACEHOLDER", missing[i])]
        \o
        [i \in 1..Len(extra) |-> ValidationError("EXTRA_PLACEHOLDER", extra[i])]

validateSemantics(config, sourceUnit, translatedText) ==
    LET maxLengthRatio == IF config.maxLengthRatio = 0 THEN DefaultMaxLengthRatio
                          ELSE config.maxLengthRatio
        sourceLength == TextLength(sourceUnit.sourceText)
        translatedLength == TextLength(translatedText)
        \* ratio = translatedLength / sourceLength, Infinity when the source is ''
        exceeded == IF sourceLength = 0 THEN translatedLength > 0
                    ELSE translatedLength > maxLengthRatio * sourceLength
    IN  IF exceeded THEN <<ValidationError("LENGTH_RATIO_EXCEEDED", "")>> ELSE <<>>

detectSourceLeakage(sourceUnit, translatedText) ==
    LET normalizedSource == trim(toLowerCase(sourceUnit.sourceText))
        normalizedTranslation == trim(toLowerCase(translatedText))
    IN  IF normalizedSource = normalizedTranslation THEN TRUE
        ELSE LET sourceWords == splitWords(normalizedSource, <<>>)
                 translationWords == splitWords(normalizedTranslation, <<>>)
                 matchCount == Cardinality(sourceWords \cap translationWords)
             IN  \* matchCount / sourceWords.size > 0.8
                 matchCount * 10 > 8 * Cardinality(sourceWords)

validateBrandNames(config, sourceUnit, translatedText) ==
    LET lost == SelectSeq(config.brandNames,
                          LAMBDA b : Includes(sourceUnit.sourceText, b)
                                         /\ ~Includes(translatedText, b))
    IN  [i \in 1..Len(lost) |-> ValidationError("MISSING_BRAND_NAME", lost[i])]

\* mutant: only the empty string is refused, not a text of whitespace
isBlank_noTrim(translatedText) == translatedText = <<>>

\* line 934: !translatedText || translatedText.trim().length === 0
isBlank(translatedText) == translatedText = <<>> \/ trim(translatedText) = <<>>

\* mutant: the length warning does not lower the confidence
semanticFactor_none(semanticWarnings) == 10

\* lines 941-966: the multipliers of the confidence, in tenths
placeholderFactor(placeholderErrors) == IF Len(placeholderErrors) > 0 THEN 5 ELSE 10
semanticFactor(semanticWarnings) == IF Len(semanticWarnings) > 0 THEN 8 ELSE 10
leakageFactor(leakageDetected) == IF leakageDetected THEN 3 ELSE 10

\* mutant: a result with warnings is not valid
isValidResult_noWarnings(errors, warnings) == Len(errors) = 0 /\ Len(warnings) = 0

\* line 976
isValidResult(errors, warnings) == Len(errors) = 0

\* mutant: the leakage stage runs whatever the configuration says
leakageStageOn_always(config) == TRUE

\* line 959: this.config.preventSourceLeakage !== false
leakageStageOn(config) == config.preventSourceLeakage

\* confidence is kept in thousandths: 1000 is 1.0
validate(config, translatedText, sourceUnit) ==
    IF isBlank(translatedText)
    THEN [ isValid    |-> FALSE,
           errors     |-> <<ValidationError("EMPTY_TRANSLATION", "")>>,
           warnings   |-> <<>>,
           confidence |-> 0 ]
    ELSE LET placeholderErrors ==
                 IF config.preservePlaceholders
                 THEN validatePlaceholders(sourceUnit, translatedText) ELSE <<>>
             c2 == (1000 * placeholderFactor(placeholderErrors)) \div 10
             semanticWarnings == validateSemantics(config, sourceUnit, translatedText)
             c3 == (c2 * semanticFactor(semanticWarnings)) \div 10
             leakageDetected ==
                 leakageStageOn(config) /\ detectSourceLeakage(sourceUnit, translatedText)
             leakageErrors ==
                 IF leakageDetected THEN <<ValidationError("SOURCE_LEAKAGE", "")>> ELSE <<>>
             c4 == (c3 * leakageFactor(leakageDetected)) \div 10
             brandWarnings ==
                 IF Len(config.brandNames) > 0
                 THEN validateBrandNames(config, sourceUnit, translatedText) ELSE <<>>
             errors == placeholderErrors \o leakageErrors
             warnings == semanticWarnings \o brandWarnings
         IN  [ isValid    |-> isValidResult(errors, warnings),
               errors     |-> errors,
               warnings   |-> warnings,
               confidence |-> c4 ]

-----
(* Atomic file writer.  A file is the set of the leaves [path, value] of its  *)
(* JSON object; a missing file reads as the empty object.                     *)

IsPrefix(p, q) == Len(p) <= Len(q) /\ SubSeq(q, 1, Len(p)) = p
IsProperPrefix(p, q) == Len(p) < Len(q) /\ IsPrefix(p, q)

Leaf(path, value) == [path |-> path, value |-> value]

\* flatToNested({[keyPath]: value}): the one leaf at keyPath.split('.')
flatToNested(keyPath, value) == {Leaf(KeySegments(keyPath), value)}

\* mutant: Object.assign, a top-level key of the source replaces the target's
deepMerge_shallow(target, source) ==
    {e \in target : \A n \in source : Head(e.path) # Head(n.path)} \cup source

\* deepMerge(existing, translations).  Below an existing object the new leaf is
\* added; an existing subtree at the leaf's path is replaced by the value; an
\* existing string on the way to the leaf is spread ({...target}) into its
\* characters, kept here as the one leaf <path, "[chars]">, or dropped when ''.
deepMerge(target, source) ==
    LET kept == {e \in target :
                    \A n \in source : ~IsPrefix(n.path, e.path) /\ ~IsProperPrefix(e.path, n.path)}
        spread == {Leaf(Append(e.path, "[chars]"), e.value) :
                      e \in {x \in target : x.value # <<>> /\
                                \E n \in source : IsProperPrefix(x.path, n.path)}}
    IN  kept \cup spread \cup source

\* a file whose content JSON.parse rejects
CorruptFile == {Leaf(<<"<unparsable>">>, <<>>)}

\* lines 322-330: the existing content, {} when the file is missing or unparsable
readExisting(file) == IF file = CorruptFile THEN {} ELSE file

\* mutant: the file is replaced by the new translations
writeTranslations_replace(file, translations) == translations

writeTranslations(file, translations) == deepMerge(readExisting(file), translations)

\* what a reader of the file finds at keyPath: the set of the (at most one) texts
FileText(file, keyPath) == {e.value : e \in {x \in file : x.path = KeySegments(keyPath)}}

-----------------------------------------------------------------------------
(* Initial state: a fresh ledger, no target file, no call in progress *)

NoRun == [mode |-> "none"]
NoPre == [sync_status |-> {}, source_hashes |-> {}, targetFiles |-> [l \in Langs |-> {}]]

InitCommon ==
    /\ source_hashes = {}
    /\ sync_status = {}
    /\ run_history = {}
    /\ targetFiles = [l \in Langs |-> {}]
    /\ pc = "idle"
    /\ run = NoRun
    /\ pre = NoPre
    /\ sent = {}
    /\ wrote = {}
    /\ last = [op |-> "init"]
    /\ ops = 0

compilerVars == <<targetFiles, sourceUnits, pc, run, pre, sent, wrote>>

-----------------------------------------------------------------------------
(* SpecPlanner: the planner driven through the ledger's and its own API,    *)
(* as tests/planner.prop.test.ts drives it.                                 *)

MaxUnits == 2

SourceHashes == {computeHash(t) : t \in SourceTexts}

PlannerTargetHash == computeHash(<<"Bonjour">>)

RECURSIVE SeqsUpTo(_, _)
SeqsUpTo(S, n) ==
    IF n = 0 THEN {<<>>}
    ELSE LET shorter == SeqsUpTo(S, n - 1)
         IN  shorter \cup {Append(q, x) : q \in shorter, x \in S}

UnitLists ==
    SeqsUpTo({createSourceUnit(k, t) : k \in Keys, t \in SourceTexts}, MaxUnits) \ {<<>>}

LanguageLists == {SubSeq(TargetLanguages, 1, n) : n \in 1..Len(TargetLanguages)}

PlannerInit ==
    /\ InitCommon
    /\ sourceUnits = <<>>

PUpdateSourceHash(k, h) ==
    /\ pc = "idle"
    /\ source_hashes' = updateSourceHash(source_hashes, k, h, None, None)
    /\ last' = [op |-> "updateSourceHash"]
    /\ UNCHANGED <<sync_status, run_history, compilerVars, ops>>

PUpdateSyncStatus(k, l, st) ==
    /\ pc = "idle"
    /\ sync_status' = updateSyncStatus(sync_status, k, l, PlannerTargetHash, st, None, None)
    /\ last' = [op |-> "updateSyncStatus"]
    /\ UNCHANGED <<source_hashes, run_history, compilerVars, ops>>

\* the call returns its plan to the caller, which then goes on (PResume)
PCreatePlan(units, langs) ==
    /\ pc = "idle"
    /\ pc' = "returned"
    /\ last' = [op |-> "createPlan", units |-> units, langs |-> langs,
                plan |-> createPlan(source_hashes, sync_status, units, langs)]
    /\ UNCHANGED <<ledgerVars, targetFiles, sourceUnits, run, pre, sent, wrote, ops>>

PResume ==
    /\ pc = "returned"
    /\ pc' = "idle"
    /\ last' = [op |-> "resume"]
    /\ UNCHANGED <<ledgerVars, targetFiles, sourceUnits, run, pre, sent, wrote, ops>>

PlannerNext ==
    \/ \E k \in Keys, h \in SourceHashes : PUpdateSourceHash(k, h)
    \/ \E k \in Keys, l \in Langs, st \in Statuses : PUpdateSyncStatus(k, l, st)
    \/ \E units \in UnitLists, langs \in LanguageLists : PCreatePlan(units, langs)
    \/ PResume

SpecPlanner == PlannerInit /\ [][PlannerNext]_vars

(* What a plan holds *)

LangCodes(langs) == {langs[i].shortCode : i \in 1..Len(langs)}

InPlan(plan, u, l) ==
    \E b \in 1..Len(plan.batches) :
        /\ plan.batches[b].targetLanguage = l
        /\ \E j \in 1..Len(plan.batches[b].sourceUnits) : plan.batches[b].sourceUnits[j] = u

RECURSIVE PlannedFor(_, _)
PlannedFor(batches, l) ==
    IF batches = <<>> THEN <<>>
    ELSE (IF Head(batches).targetLanguage = l THEN Head(batches).sourceUnits ELSE <<>>)
             \o PlannedFor(Tail(batches), l)

StatusOf(ss, k, l) ==
    IF HasSyncStatus(ss, k, l) THEN getSyncStatus(ss, k, l).status ELSE "none"

StoredHashIs(sh, k, h) == \E r \in sh : r.key_path = k /\ r.value_hash = h

AllClean(units, langs) ==
    \A i \in 1..Len(units), l \in LangCodes(langs) :
        StatusOf(sync_status, units[i].keyPath, l) = "CLEAN"

\* C1: createPlan includes unit u for language l exactly when the pair has no
\* sync_status row, or its status is not MANUAL and (the stored source hash differs
\* from u.sourceHash or the status is FAILED or DIRTY).
C1_PlanDecisionTable ==
    last.op = "createPlan" =>
        /\ \A b \in 1..Len(last.plan.batches) :
               last.plan.batches[b].targetLanguage \in LangCodes(last.langs)
        /\ \A i \in 1..Len(last.units), l \in LangCodes(last.langs) :
               LET u == last.units[i]
                   st == StatusOf(sync_status, u.keyPath, l)
               IN  InPlan(last.plan, u, l) <=>
                       \/ st = "none"
                       \/ /\ st # "MANUAL"
                          /\ \/ ~StoredHashIs(source_hashes, u.keyPath, u.sourceHash)
                             \/ st \in {"FAILED", "DIRTY"}

C1_Witness ==
    /\ last.op = "createPlan"
    /\ \E i \in 1..Len(last.units), l \in LangCodes(last.langs) :
           /\ StatusOf(sync_status, last.units[i].keyPath, l) = "CLEAN"
           /\ InPlan(last.plan, last.units[i], l)
    /\ \E i \in 1..Len(last.units), l \in LangCodes(last.langs) :
           /\ StatusOf(sync_status, last.units[i].keyPath, l) = "SKIPPED"
           /\ ~InPlan(last.plan, last.units[i], l)

OneChanged(units, i) ==
    /\ \E r \in source_hashes : r.key_path = units[i].keyPath
    /\ ~StoredHashIs(source_hashes, units[i].keyPath, units[i].sourceHash)
    /\ \A j \in 1..Len(units) :
           j # i => StoredHashIs(source_hashes, units[j].keyPath, units[j].sourceHash)

\* C3: from an all-CLEAN ledger whose stored hashes match, after exactly one unit's
\* sourceHash changed, createPlan holds that unit once per target language and no
\* other unit, and totalUnits is the number of target languages.
C3_SingleEditPlanned ==
    (last.op = "createPlan" /\ AllClean(last.units, last.langs)) =>
        \A i \in 1..Len(last.units) :
            OneChanged(last.units, i) =>
                /\ last.plan.totalUnits = Len(last.langs)
                /\ \A l \in LangCodes(last.langs) :
                       PlannedFor(last.plan.batches, l) = <<last.units[i]>>

C3_Witness ==
    /\ last.op = "createPlan"
    /\ Len(last.units) = 2
    /\ Len(last.langs) = 2
    /\ AllClean(last.units, last.langs)
    /\ OneChanged(last.units, 1)
    /\ last.plan.totalUnits = 2

\* C5: when every unit's stored source hash equals its sourceHash and every pair
\* is CLEAN, createPlan returns totalUnits = 0 and no batch (createPlan writes
\* nothing, so every further call returns the same).
C5_CleanLedgerEmptyPlan ==
    ( /\ last.op = "createPlan"
      /\ AllClean(last.units, last.langs)
      /\ \A i \in 1..Len(last.units) :
             StoredHashIs(source_hashes, last.units[i].keyPath, last.units[i].sourceHash) )
    => (last.plan.totalUnits = 0 /\ last.plan.batches = <<>>)

C5_Witness ==
    /\ last.op = "createPlan"
    /\ Len(last.units) = 2
    /\ last.units[1].keyPath # last.units[2].keyPath
    /\ Len(last.langs) = 2
    /\ AllClean(last.units, last.langs)
    /\ \A i \in 1..Len(last.units) :
           StoredHashIs(source_hashes, last.units[i].keyPath, last.units[i].sourceHash)
    /\ last.plan.totalUnits = 0

-----------------------------------------------------------------------------
(* SpecLedger: the sync_status table and the manual-override detector driven *)
(* through their API, as tests/ledger.prop.test.ts and                       *)
(* tests/planner.prop.test.ts drive them.                                    *)

LedgerPairs == { <<"greeting", "fr">>, <<"greeting", "de">>, <<"nav.home", "fr">> }

TargetHashes == { computeHash(<<"Bonjour">>), computeHash(<<"Salut">>) }

\* the optional arguments modelFingerprint and promptVersion of one call
OptionalArgs ==
    { [modelFingerprint |-> None,           promptVersion |-> None],
      [modelFingerprint |-> Some("gpt-4o"), promptVersion |-> Some(1)],
      [modelFingerprint |-> Some(""),       promptVersion |-> Some(0)] }

\* status values a caller can hand to updateSyncStatus at run time
StatusArgs == Statuses \cup {"INVALID", NullStatus}

LedgerInit ==
    /\ InitCommon
    /\ sourceUnits = <<>>

\* the statement throws when the CHECK constraint rejects the row
LUpdateSyncStatus(k, l, th, st, opt) ==
    /\ pc = "idle"
    /\ pc' = "returned"
    /\ sync_status' = IF statusCheckFails(st) THEN sync_status
                      ELSE updateSyncStatus(sync_status, k, l, th, st,
                                            opt.modelFingerprint, opt.promptVersion)
    /\ last' = [op |-> "updateSyncStatus", keyPath |-> k, langCode |-> l,
                targetHash |-> th, status |-> st,
                modelFingerprint |-> opt.modelFingerprint,
                promptVersion |-> opt.promptVersion,
                threw |-> statusCheckFails(st)]
    /\ UNCHANGED <<source_hashes, run_history, targetFiles, sourceUnits, run, pre, sent, wrote, ops>>

LMarkAsManualOverride(k, l, th) ==
    /\ pc = "idle"
    /\ pc' = "returned"
    /\ sync_status' = markAsManualOverride(sync_status, k, l, th)
    /\ last' = [op |-> "markAsManualOverride", keyPath |-> k, langCode |-> l,
                targetHash |-> th]
    /\ UNCHANGED <<source_hashes, run_history, targetFiles, sourceUnits, run, pre, sent, wrote, ops>>

LIsManualOverride(k, l, h) ==
    /\ pc = "idle"
    /\ pc' = "returned"
    /\ last' = [op |-> "isManualOverride", keyPath |-> k, langCode |-> l,
                currentHash |-> h, ret |-> isManualOverride(sync_status, k, l, h)]
    /\ UNCHANGED <<ledgerVars, targetFiles, sourceUnits, run, pre, sent, wrote, ops>>

LedgerNext ==
    \/ \E p \in LedgerPairs, th \in TargetHashes, st \in StatusArgs, opt \in OptionalArgs :
           LUpdateSyncStatus(p[1], p[2], th, st, opt)
    \/ \E p \in LedgerPairs, th \in TargetHashes : LMarkAsManualOverride(p[1], p[2], th)
    \/ \E p \in LedgerPairs, h \in TargetHashes : LIsManualOverride(p[1], p[2], h)
    \/ PResume

SpecLedger == LedgerInit /\ [][LedgerNext]_vars

RowsOf(ss, k, l) == {r \in ss : r.key_path = k /\ r.lang_code = l}

\* C7: isManualOverride(k, l, h) is true exactly when the row of (k, l) is MANUAL,
\* or is CLEAN with a target_hash other than h (false without a row, for a CLEAN
\* row with target_hash = h and for DIRTY/FAILED/SKIPPED rows); so after
\* markAsManualOverride it is true for every hash while the row stays MANUAL.
C7_ManualOverrideTable ==
    /\ last.op = "isManualOverride" =>
           (last.ret <=>
               \E r \in RowsOf(sync_status, last.keyPath, last.langCode) :
                   \/ r.status = "MANUAL"
                   \/ r.status = "CLEAN" /\ r.target_hash # last.currentHash)
    /\ last.op = "markAsManualOverride" =>
           \A h \in TargetHashes :
               isManualOverride(sync_status, last.keyPath, last.langCode, h)
    /\ \A r \in sync_status :
           r.status = "MANUAL" =>
               \A h \in TargetHashes : isManualOverride(sync_status, r.key_path, r.lang_code, h)

C7_Witness ==
    /\ last.op = "isManualOverride"
    /\ last.ret
    /\ StatusOf(sync_status, last.keyPath, last.langCode) = "CLEAN"

\* C10: after updateSyncStatus the pair has one row, whose target_hash, status,
\* model_fingerprint and prompt_version are exactly the call's arguments (an
\* omitted optional argument stored as absent), and no other pair's row changed.
C10_LastWriteWinsExact ==
    [][ (last'.op = "updateSyncStatus" /\ ~last'.threw) =>
          /\ RowsOf(sync_status', last'.keyPath, last'.langCode) =
                 { StatusRow(last'.keyPath, last'.langCode, last'.targetHash, last'.status,
                             last'.modelFingerprint, last'.promptVersion) }
          /\ \A p \in LedgerPairs :
                 p # <<last'.keyPath, last'.langCode>> =>
                     RowsOf(sync_status', p[1], p[2]) = RowsOf(sync_status, p[1], p[2])
      ]_vars

-----------------------------------------------------------------------------
(* Ledger: run history and the retry query *)

RunRow(runId, startedAt, modelUsed, configHash) ==
    [ run_id |-> runId, started_at |-> startedAt, finished_at |-> None,
      model_used |-> modelUsed, tokens_in |-> None, tokens_out |-> None,
      cost_estimate_usd |-> None, config_hash |-> configHash ]

\* INSERT INTO run_history: fails on a run_id that is already stored
startRunCollides(rh, runId) == \E r \in rh : r.run_id = runId

startRun(rh, runId, now, modelUsed, configHash) ==
    rh \cup {RunRow(runId, now, modelUsed, configHash)}

\* mutant: a missing row is inserted
completeRun_upsert(rh, runId, now, tokensIn, tokensOut, costEstimate) ==
    IF \E r \in rh : r.run_id = runId
    THEN { IF r.run_id = runId
           THEN [r EXCEPT !.finished_at = Some(now), !.tokens_in = Some(tokensIn),
                          !.tokens_out = Some(tokensOut), !.cost_estimate_usd = costEstimate]
           ELSE r : r \in rh }
    ELSE rh \cup {[ RunRow(runId, now, "", "") EXCEPT
                       !.finished_at = Some(now), !.tokens_in = Some(tokensIn),
                       !.tokens_out = Some(tokensOut), !.cost_estimate_usd = costEstimate ]}

completeRun(rh, runId, now, tokensIn, tokensOut, costEstimate) ==
    { IF r.run_id = runId
      THEN [r EXCEPT !.finished_at = Some(now), !.tokens_in = Some(tokensIn),
                     !.tokens_out = Some(tokensOut), !.cost_estimate_usd = costEstimate]
      ELSE r : r \in rh }

KeyOrder == <<"greeting", "nav.home">>

\* the rows of sync_status in the order the status index yields them
PairOrder ==
    [n \in 1..(Len(TargetLanguages) * Len(KeyOrder)) |->
        << KeyOrder[((n - 1) % Len(KeyOrder)) + 1],
           TargetLanguages[((n - 1) \div Len(KeyOrder)) + 1].shortCode >>]

\* the language code an argument-less string option carries
NoLangCode == ""

\* the statement without its language condition
getFailedItems_noFilter(ss, sh, langCode) ==
    LET selected(p) == StatusOf(ss, p[1], p[2]) = "FAILED"
        item(p) ==
            [ key_path |-> p[1], lang_code |-> p[2],
              value_hash |-> getSourceHash(sh, p[1]) ]
        pairs == SelectSeq(PairOrder, selected)
    IN  [i \in 1..Len(pairs) |-> item(pairs[i])]

\* langCode is None when no language filter is given; `if (langCode)` adds the
\* language condition for a non-empty string only
getFailedItems(ss, sh, langCode) ==
    LET filtered == langCode # None /\ langCode[1] # NoLangCode
        selected(p) ==
            /\ StatusOf(ss, p[1], p[2]) = "FAILED"
            /\ (filtered => p[2] = langCode[1])
        item(p) ==
            [ key_path |-> p[1], lang_code |-> p[2],
              value_hash |-> getSourceHash(sh, p[1]) ]
        pairs == SelectSeq(PairOrder, selected)
    IN  [i \in 1..Len(pairs) |-> item(pairs[i])]

-----------------------------------------------------------------------------
(* TranslationCompiler *)

ModelUsed == "gpt-4o"
ModelFingerprint == "openai:gpt-4o"
ConfigHash == computeHash(<<"config">>)
TokensPerTranslation == 50

\* PromptManager.getPromptVersion with no custom prompt configured
PromptVersion == 1

RECURSIVE SourceChars(_)
SourceChars(units) ==
    IF units = <<>> THEN 0
    ELSE TextLength(Head(units).sourceText) + SourceChars(Tail(units))

\* provider.estimateCost: proportional to the characters of the batch's units;
\* the average over no unit is 0/0, NaN
providerEstimateCost(units) ==
    IF units = <<>> THEN Null ELSE Some(SourceChars(units))

RECURSIVE updateSourceHashes(_, _, _)
updateSourceHashes(sh, units, runId) ==
    IF units = <<>> THEN sh
    ELSE updateSourceHashes(
             updateSourceHash(sh, Head(units).keyPath, Head(units).sourceHash, None, Some(runId)),
             Tail(units), runId)

\* mutant: the early return is never taken
nothingToTranslate_never(plan) == Len(plan.batches) < 0

\* line 64: is the plan empty, so that sync returns at once?
nothingToTranslate(plan) == Len(plan.batches) = 0

RunStatistics(runId, units, translated, failed, tokensIn, tokensOut, cost) ==
    [ runId |-> runId, totalUnits |-> Len(units), translatedUnits |-> translated,
      failedUnits |-> failed, skippedUnits |-> Len(units) - translated - failed,
      tokensIn |-> tokensIn, tokensOut |-> tokensOut, costEstimateUsd |-> cost ]

RetryStatistics(recovered, remaining, tokensIn, tokensOut) ==
    [ recoveredUnits |-> recovered, remainingFailed |-> remaining,
      tokensIn |-> tokensIn, tokensOut |-> tokensOut ]

Snapshot ==
    [sync_status |-> sync_status, source_hashes |-> source_hashes, targetFiles |-> targetFiles]

BatchPairs(batch) ==
    {<<batch.sourceUnits[i].keyPath, batch.targetLanguage>> : i \in 1..Len(batch.sourceUnits)}

PlanPairs(batches) == UNION {BatchPairs(batches[b]) : b \in 1..Len(batches)}

\* retryFailed lines 236-270: one batch per language, in order of first appearance
RECURSIVE retryBatches(_)
retryBatches(items) ==
    IF items = <<>> THEN <<>>
    ELSE LET langCode == Head(items).lang_code
             mine == SelectSeq(items, LAMBDA it : it.lang_code = langCode)
             rest == SelectSeq(items, LAMBDA it : it.lang_code # langCode)
         IN  << [ batchId        |-> <<"retry">>,
                  sourceUnits    |-> [i \in 1..Len(mine) |->
                                        [ keyPath      |-> mine[i].key_path,
                                          sourceText   |-> <<>>,
                                          sourceHash   |-> mine[i].value_hash,
                                          placeholders |-> {} ]],
                  targetLanguage |-> langCode,
                  deduplicationKey |-> EmptyStr ] >> \o retryBatches(rest)

-----------------------------------------------------------------------------
(* Spec: the compiler's sync and retryFailed calls, step by step, between    *)
(* edits of the source files and of the target files.                        *)

MaxOps == 3

InitialSource ==
    << createSourceUnit("greeting", <<"Hello", " ", "{name}">>),
       createSourceUnit("nav.home", <<"Hello">>) >>

Init ==
    /\ InitCommon
    /\ sourceUnits = InitialSource

Now == ops

\* `run_${Date.now()}_${random}`: a run id not stored yet
RunIds == <<"run_1", "run_2", "run_3", "run_4", "run_5", "run_6">>

FreshRunId == RunIds[Cardinality(run_history) + 1]

RunLocals(mode, force, runId, plan) ==
    [ mode |-> mode, force |-> force, runId |-> runId, plan |-> plan,
      batchIdx |-> 1, results |-> <<>>, resIdx |-> 1,
      translatedUnits |-> 0, failedUnits |-> 0,
      totalTokensIn |-> 0, totalTokensOut |-> 0,
      remainingFailed |-> 0, providerCreated |-> FALSE,
      rejected |-> {},   \* pairs whose result validation rejected (history)
      aborted |-> {} ]   \* pairs of the batches that ended in the catch (history)

(* sync, lines 34-85: extract, start the run, store the source hashes, plan *)
SyncBegin(force) ==
    /\ pc = "idle"
    /\ ops < MaxOps
    /\ LET runId == FreshRunId
           rh == startRun(run_history, runId, Now, ModelUsed, ConfigHash)
           sh == updateSourceHashes(source_hashes, sourceUnits, runId)
           plan == createPlan(sh, sync_status, sourceUnits, TargetLanguages)
       IN  /\ source_hashes' = sh
           /\ IF nothingToTranslate(plan)
              THEN /\ run_history' = completeRun(rh, runId, Now, 0, 0, Some(0))
                   /\ pc' = "idle"
                   /\ run' = NoRun
                   /\ last' = [ op |-> "sync", force |-> force, threw |-> FALSE,
                                plan |-> plan, providerCreated |-> FALSE,
                                rejected |-> {}, aborted |-> {},
                                ret |-> RunStatistics(runId, sourceUnits, 0, 0, 0, 0, Some(0)) ]
              ELSE /\ run_history' = rh
                   /\ pc' = "batch"
                   /\ run' = [RunLocals("sync", force, runId, plan)
                                  EXCEPT !.providerCreated = TRUE]
                   /\ last' = [op |-> "syncBegin", force |-> force, plan |-> plan]
    /\ pre' = Snapshot
    /\ sent' = {}
    /\ wrote' = {}
    /\ ops' = ops + 1
    /\ UNCHANGED <<sync_status, targetFiles, sourceUnits>>

(* sync, line 53: the generated run id is already stored; the INSERT throws *)
SyncStartRunCollides(force) ==
    /\ pc = "idle"
    /\ ops < MaxOps
    /\ \E r \in run_history : startRunCollides(run_history, r.run_id)
    /\ last' = [op |-> "sync", force |-> force, threw |-> TRUE]
    /\ pre' = Snapshot
    /\ sent' = {}
    /\ wrote' = {}
    /\ ops' = ops + 1
    /\ UNCHANGED <<ledgerVars, targetFiles, sourceUnits, pc, run>>

CurrentBatch == run.plan.batches[run.batchIdx]

\* the catch of a batch: sync counts the whole batch as failed, retryFailed only logs
BatchFailed ==
    [run EXCEPT !.failedUnits = IF run.mode = "sync"
                                THEN @ + Len(CurrentBatch.sourceUnits) ELSE @,
                !.batchIdx = @ + 1, !.results = <<>>, !.resIdx = 1,
                !.aborted = @ \cup BatchPairs(CurrentBatch)]

\* the end of a batch's try block
BatchDone(r) ==
    [r EXCEPT !.totalTokensIn = @ + Len(CurrentBatch.sourceUnits) * TokensPerTranslation,
              !.totalTokensOut = @ + Len(CurrentBatch.sourceUnits) * TokensPerTranslation,
              !.batchIdx = @ + 1, !.results = <<>>, !.resIdx = 1]

(* provider.translate throws (after its own retries).  Every batch's language *)
(* comes from config.targetLanguages, so the lookup of lines 98-99 succeeds.   *)
TranslateThrows ==
    /\ pc = "batch"
    /\ run.batchIdx <= Len(run.plan.batches)
    /\ sent' = sent \cup BatchPairs(CurrentBatch)
    /\ run' = [BatchFailed EXCEPT !.providerCreated = TRUE]
    /\ last' = [op |-> "translate", threw |-> TRUE]
    /\ UNCHANGED <<ledgerVars, targetFiles, sourceUnits, pc, pre, wrote, ops>>

(* provider.translate returns one result per unit of the batch *)
TranslateReturns(results) ==
    /\ pc = "batch"
    /\ run.batchIdx <= Len(run.plan.batches)
    /\ Len(results) = Len(CurrentBatch.sourceUnits)
    /\ sent' = sent \cup BatchPairs(CurrentBatch)
    /\ IF Len(results) = 0
       THEN /\ run' = [BatchDone(run) EXCEPT !.providerCreated = TRUE]
            /\ pc' = "batch"
       ELSE /\ run' = [run EXCEPT !.results = results, !.resIdx = 1, !.providerCreated = TRUE]
            /\ pc' = "results"
    /\ last' = [op |-> "translate", threw |-> FALSE]
    /\ UNCHANGED <<ledgerVars, targetFiles, sourceUnits, pre, wrote, ops>>

Advance(r) ==
    IF r.resIdx + 1 > Len(r.results) THEN BatchDone(r) ELSE [r EXCEPT !.resIdx = @ + 1]

AfterResult(r) == IF r.resIdx + 1 > Len(r.results) THEN "batch" ELSE "results"

\* mutant: a rejected result ends the batch's result loop
afterRejection_break(r) == BatchDone(r)

\* line 133, `continue`: go on with the next result of the batch
afterRejection(r) == Advance(r)

\* mutant: the validation's verdict is ignored
acceptResult_always(validation) == TRUE

\* lines 127 and 306: is the result written and committed?
acceptResult(validation) == validation.isValid

(* one turn of the result loop: validate, then write and commit, or mark FAILED *)
ProcessResult ==
    /\ pc = "results"
    /\ run.resIdx <= Len(run.results)
    /\ LET batch == CurrentBatch
           text == run.results[run.resIdx]
           lang == batch.targetLanguage
       IN  IF run.resIdx > Len(batch.sourceUnits)
           THEN \* sourceUnit is undefined: the TypeError lands in the batch's catch
                /\ run' = BatchFailed
                /\ pc' = "batch"
                /\ UNCHANGED <<sync_status, targetFiles, wrote>>
           ELSE LET sourceUnit == batch.sourceUnits[run.resIdx]
                    validation == validate(DefaultValidation, text, sourceUnit)
                IN  IF acceptResult(validation)
                    THEN /\ targetFiles' =
                                [targetFiles EXCEPT ![lang] =
                                    writeTranslations(@, flatToNested(sourceUnit.keyPath, text))]
                         /\ wrote' = wrote \cup {<<sourceUnit.keyPath, lang>>}
                         /\ sync_status' =
                                updateSyncStatus(sync_status, sourceUnit.keyPath, lang,
                                                 computeHash(text), "CLEAN",
                                                 Some(ModelFingerprint), Some(PromptVersion))
                         /\ run' = Advance([run EXCEPT
                                        !.translatedUnits = @ + 1,
                                        !.remainingFailed =
                                            IF run.mode = "retry" THEN @ - 1 ELSE @])
                         /\ pc' = AfterResult(run)
                    ELSE /\ sync_status' =
                                IF run.mode = "sync"
                                THEN updateSyncStatus(sync_status, sourceUnit.keyPath, lang,
                                                      EmptyStr, "FAILED", None, None)
                                ELSE sync_status
                         /\ run' = afterRejection(
                                        [run EXCEPT
                                            !.failedUnits = IF run.mode = "sync" THEN @ + 1 ELSE @,
                                            !.rejected = @ \cup {<<sourceUnit.keyPath, lang>>}])
                         /\ pc' = IF afterRejection(run).batchIdx = run.batchIdx
                                  THEN "results" ELSE "batch"
                         /\ UNCHANGED <<targetFiles, wrote>>
    /\ last' = [op |-> "result"]
    /\ UNCHANGED <<source_hashes, run_history, sourceUnits, pre, sent, ops>>

\* mutant: the row is committed before the write is attempted
rowsAfterFailedWrite_committed(ss, keyPath, langCode, text) ==
    updateSyncStatus(ss, keyPath, langCode, computeHash(text), "CLEAN",
                     Some(ModelFingerprint), Some(PromptVersion))

\* lines 139-151 and 311-323: updateSyncStatus comes after the awaited write, so a
\* write that throws skips it
rowsAfterFailedWrite(ss, keyPath, langCode, text) == ss

(* writeTranslations throws for a valid result: the batch's catch takes over *)
WriteThrows ==
    /\ pc = "results"
    /\ run.resIdx <= Len(run.results)
    /\ run.resIdx <= Len(CurrentBatch.sourceUnits)
    /\ acceptResult(validate(DefaultValidation, run.results[run.resIdx],
                             CurrentBatch.sourceUnits[run.resIdx]))
    /\ sync_status' = rowsAfterFailedWrite(sync_status, CurrentBatch.sourceUnits[run.resIdx].keyPath,
                                            CurrentBatch.targetLanguage, run.results[run.resIdx])
    /\ run' = BatchFailed
    /\ pc' = "batch"
    /\ last' = [op |-> "writeThrows"]
    /\ UNCHANGED <<source_hashes, run_history, targetFiles, sourceUnits, pre, sent, wrote, ops>>

(* sync, lines 166-184: complete the run and return the statistics *)
SyncFinish ==
    /\ pc = "batch"
    /\ run.mode = "sync"
    /\ run.batchIdx > Len(run.plan.batches)
    /\ LET actualCost ==
               providerEstimateCost(SubSeq(sourceUnits, 1,
                                           Min(run.translatedUnits, Len(sourceUnits))))
       IN  /\ run_history' = completeRun(run_history, run.runId, Now,
                                         run.totalTokensIn, run.totalTokensOut, actualCost)
           /\ last' = [ op |-> "sync", force |-> run.force, threw |-> FALSE,
                        plan |-> run.plan, providerCreated |-> run.providerCreated,
                        rejected |-> run.rejected, aborted |-> run.aborted,
                        ret |-> RunStatistics(run.runId, sourceUnits, run.translatedUnits,
                                              run.failedUnits, run.totalTokensIn,
                                              run.totalTokensOut, actualCost) ]
    /\ pc' = "idle"
    /\ run' = NoRun
    /\ UNCHANGED <<source_hashes, sync_status, targetFiles, sourceUnits, pre, sent, wrote, ops>>

\* mutant: the dry run reports nothing left
dryRunStatistics_none(failedItems) == RetryStatistics(0, 0, 0, 0)

\* retryFailed, lines 227-232: what the dry run returns
dryRunStatistics(failedItems) == RetryStatistics(0, Len(failedItems), 0, 0)

(* retryFailed, lines 202-270: select the FAILED items, group them by language *)
RetryBegin(langCode, dryRun) ==
    /\ pc = "idle"
    /\ ops < MaxOps
    /\ LET failedItems == getFailedItems(sync_status, source_hashes, langCode)
       IN  IF Len(failedItems) = 0
           THEN /\ last' = [ op |-> "retryFailed", lang |-> langCode, dryRun |-> dryRun,
                             selected |-> failedItems, providerCreated |-> FALSE,
                             historyBefore |-> run_history,
                             ret |-> RetryStatistics(0, 0, 0, 0) ]
                /\ UNCHANGED <<pc, run>>
           ELSE IF dryRun
           THEN /\ last' = [ op |-> "retryFailed", lang |-> langCode, dryRun |-> dryRun,
                             selected |-> failedItems, providerCreated |-> FALSE,
                             historyBefore |-> run_history,
                             ret |-> dryRunStatistics(failedItems) ]
                /\ UNCHANGED <<pc, run>>
           ELSE /\ pc' = "batch"
                /\ run' = [RunLocals("retry", FALSE, "",
                                     [ batches |-> retryBatches(failedItems),
                                       totalUnits |-> Len(failedItems),
                                       estimatedCost |-> 0 ])
                               EXCEPT !.remainingFailed = Len(failedItems)]
                /\ last' = [op |-> "retryBegin", lang |-> langCode, selected |-> failedItems]
    /\ pre' = Snapshot
    /\ sent' = {}
    /\ wrote' = {}
    /\ ops' = ops + 1
    /\ UNCHANGED <<ledgerVars, targetFiles, sourceUnits>>

(* retryFailed, lines 340-345: return the statistics *)
RetryFinish ==
    /\ pc = "batch"
    /\ run.mode = "retry"
    /\ run.batchIdx > Len(run.plan.batches)
    /\ last' = [ op |-> "retryFailed", dryRun |-> FALSE,
                 providerCreated |-> run.providerCreated,
                 rejected |-> run.rejected, aborted |-> run.aborted,
                 ret |-> RetryStatistics(run.translatedUnits, run.remainingFailed,
                                         run.totalTokensIn, run.totalTokensOut) ]
    /\ pc' = "idle"
    /\ run' = NoRun
    /\ UNCHANGED <<ledgerVars, targetFiles, sourceUnits, pre, sent, wrote, ops>>

(* Between two calls: a developer edits a source string, *)
EditSource(i, text) ==
    /\ pc = "idle"
    /\ ops < MaxOps
    /\ text # sourceUnits[i].sourceText
    /\ sourceUnits' = [sourceUnits EXCEPT ![i] = createSourceUnit(@.keyPath, text)]
    /\ last' = [op |-> "editSource", keyPath |-> sourceUnits[i].keyPath]
    /\ ops' = ops + 1
    /\ UNCHANGED <<ledgerVars, targetFiles, pc, run, pre, sent, wrote>>

(* edits a translation in a target file by hand, *)
EditTarget(k, l, text) ==
    /\ pc = "idle"
    /\ ops < MaxOps
    /\ FileText(targetFiles[l], k) # {}
    /\ text \notin FileText(targetFiles[l], k)
    /\ targetFiles' = [targetFiles EXCEPT ![l] = deepMerge(@, flatToNested(k, text))]
    /\ last' = [op |-> "editTarget", keyPath |-> k, langCode |-> l]
    /\ ops' = ops + 1
    /\ UNCHANGED <<ledgerVars, sourceUnits, pc, run, pre, sent, wrote>>

(* or marks a translation as manual through the detector, with the hash of the *)
(* text the target file holds for it                                            *)
MarkManual(k, l, text) ==
    /\ pc = "idle"
    /\ ops < MaxOps
    /\ FileText(targetFiles[l], k) \in {{}, {text}}
    /\ sync_status' = markAsManualOverride(sync_status, k, l, computeHash(text))
    /\ last' = [op |-> "markAsManualOverride", keyPath |-> k, langCode |-> l]
    /\ ops' = ops + 1
    /\ UNCHANGED <<source_hashes, run_history, targetFiles, sourceUnits, pc, run, pre, sent, wrote>>

ResultLists(n) == {q \in SeqsUpTo(ProviderTexts, n) : Len(q) = n}

Next ==
    \/ \E force \in BOOLEAN : SyncBegin(force)
    \/ \E force \in BOOLEAN : SyncStartRunCollides(force)
    \/ TranslateThrows
    \/ \E results \in ResultLists(Len(sourceUnits)) : TranslateReturns(results)
    \/ ProcessResult
    \/ WriteThrows
    \/ SyncFinish
    \/ \E langCode \in {None} \cup {Some(l) : l \in Langs}, dryRun \in BOOLEAN :
           RetryBegin(langCode, dryRun)
    \/ RetryFinish
    \/ \E i \in 1..Len(sourceUnits), text \in SourceTexts : EditSource(i, text)
    \/ \E k \in Keys, l \in Langs, text \in ManualTexts : EditTarget(k, l, text)
    \/ \E k \in Keys, l \in Langs, text \in ProviderTexts \cup ManualTexts :
           MarkManual(k, l, text)

Spec == Init /\ [][Next]_vars

(* Steps of a sync or retryFailed call, as opposed to edits between calls *)
EnvOps == {"editSource", "editTarget", "markAsManualOverride"}

SyncReturned == last.op = "sync" /\ ~last.threw

\* C2: once a pair is MANUAL, no step of a sync or retryFailed call made without
\* force hands it to the provider, writes its translation to the target file or
\* changes its sync_status row, whatever the source text is.
C2_ManualNeverTouched ==
    [][ \A k \in Keys, l \in Langs :
          ( /\ StatusOf(sync_status, k, l) = "MANUAL"
            /\ last'.op \notin EnvOps
            /\ ~(last'.op \in {"sync", "syncBegin"} /\ last'.force)
            /\ ~(run.mode = "sync" /\ run.force) )
          => /\ RowsOf(sync_status', k, l) = RowsOf(sync_status, k, l)
             /\ <<k, l>> \notin sent'
             /\ <<k, l>> \notin wrote'
             /\ FileText(targetFiles'[l], k) = FileText(targetFiles[l], k)
      ]_vars

C2_Witness ==
    /\ SyncReturned
    /\ ~last.force
    /\ sent # {}
    /\ \E i \in 1..Len(sourceUnits), l \in Langs :
           /\ StatusOf(sync_status, sourceUnits[i].keyPath, l) = "MANUAL"
           /\ sourceUnits[i] # InitialSource[i]
           /\ <<sourceUnits[i].keyPath, l>> \notin sent

\* C4: a key whose source text changed since the previous sync and whose pair is
\* CLEAN is put in the next sync's plan and sent to the provider for every
\* language, and the run records the new source hash.
C4_ChangedSourceResent ==
    \A i \in 1..Len(sourceUnits), l \in Langs :
        LET u == sourceUnits[i]
            changed == /\ \E r \in pre.source_hashes : r.key_path = u.keyPath
                       /\ ~StoredHashIs(pre.source_hashes, u.keyPath, u.sourceHash)
                       /\ StatusOf(pre.sync_status, u.keyPath, l) = "CLEAN"
        IN  /\ (last.op = "syncBegin" \/ SyncReturned) /\ changed
                => /\ <<u.keyPath, l>> \in PlanPairs(last.plan.batches)
                   /\ StoredHashIs(source_hashes, u.keyPath, u.sourceHash)
            /\ SyncReturned /\ changed => <<u.keyPath, l>> \in sent

\* C6: a sync whose plan has no batch returns without creating a provider or
\* calling translate, writes no target file, changes no sync_status row and
\* reports translatedUnits = 0 and failedUnits = 0.
C6_EmptyPlanNoWork ==
    (SyncReturned /\ Len(last.plan.batches) = 0) =>
        /\ pc = "idle"
        /\ ~last.providerCreated
        /\ sent = {}
        /\ wrote = {}
        /\ targetFiles = pre.targetFiles
        /\ sync_status = pre.sync_status
        /\ last.ret.translatedUnits = 0
        /\ last.ret.failedUnits = 0

C6_Witness ==
    /\ SyncReturned
    /\ Len(last.plan.batches) = 0
    /\ \E r \in sync_status : r.status = "CLEAN"
    /\ last.ret.skippedUnits = Len(sourceUnits)

HandEdited(k, l) ==
    /\ StatusOf(pre.sync_status, k, l) = "CLEAN"
    /\ \E t \in FileText(pre.targetFiles[l], k) :
           computeHash(t) # getSyncStatus(pre.sync_status, k, l).target_hash

\* C8: when the target file's text of a CLEAN pair no longer hashes to the pair's
\* target_hash, the next sync sets the pair to MANUAL and skips it.
C8_HandEditMarkedManual ==
    SyncReturned =>
        \A k \in Keys, l \in Langs :
            HandEdited(k, l) =>
                /\ StatusOf(sync_status, k, l) = "MANUAL"
                /\ <<k, l>> \notin sent

\* C9: a sync with force = true puts every MANUAL pair of an extracted key in its
\* plan and sends it to the provider, and an accepted translation moves the
\* pair's status away from MANUAL.
C9_ForceRegeneratesManual ==
    (SyncReturned /\ last.force) =>
        \A i \in 1..Len(sourceUnits), l \in Langs :
            LET k == sourceUnits[i].keyPath
            IN  StatusOf(pre.sync_status, k, l) = "MANUAL" =>
                    /\ <<k, l>> \in PlanPairs(last.plan.batches)
                    /\ <<k, l>> \in sent
                    /\ (<<k, l>> \in wrote => StatusOf(sync_status, k, l) # "MANUAL")

-----------------------------------------------------------------------------
(* SpecSourceHashes: the source_hashes table driven through updateSourceHash *)
(* and getSourceHash, as tests/ledger.prop.test.ts drives it.                *)

\* value hashes a caller passes; the empty string is a string too
ValueHashes == SourceHashes \cup {EmptyStr}

ContextSigs == {None, Some(""), Some("ctx")}

OptionalRunIds == {None, Some("run_1")}

SHUpdateSourceHash(k, h, sig, runId) ==
    /\ pc = "idle"
    /\ pc' = "returned"
    /\ source_hashes' = updateSourceHash(source_hashes, k, h, sig, runId)
    /\ last' = [op |-> "updateSourceHash", keyPath |-> k, valueHash |-> h]
    /\ UNCHANGED <<sync_status, run_history, targetFiles, sourceUnits, run, pre, sent, wrote, ops>>

SHGetSourceHash(k) ==
    /\ pc = "idle"
    /\ pc' = "returned"
    /\ last' = [op |-> "getSourceHash", keyPath |-> k, ret |-> getSourceHash(source_hashes, k)]
    /\ UNCHANGED <<ledgerVars, targetFiles, sourceUnits, run, pre, sent, wrote, ops>>

SourceHashesNext ==
    \/ \E k \in Keys, h \in ValueHashes, sig \in ContextSigs, runId \in OptionalRunIds :
           SHUpdateSourceHash(k, h, sig, runId)
    \/ \E k \in Keys : SHGetSourceHash(k)
    \/ PResume

SpecSourceHashes == LedgerInit /\ [][SourceHashesNext]_vars

SourceRowsOf(sh, k) == {r \in sh : r.key_path = k}

\* C11: an updateSourceHash call with a non-empty hash makes getSourceHash of its
\* key return that hash, from exactly one row; the value returned for a key
\* changes only by an updateSourceHash call for that key (so it is the hash of
\* the last call, and absent for a key never written); no key ever has two rows.
C11_SourceHashLastWriteWins ==
    [][ /\ \A k \in Keys :
            IF last'.op = "updateSourceHash" /\ last'.keyPath = k /\ pc' = "returned"
            THEN /\ last'.valueHash # EmptyStr =>
                        getSourceHash(source_hashes', k) = last'.valueHash
                 /\ Cardinality(SourceRowsOf(source_hashes', k)) = 1
            ELSE /\ getSourceHash(source_hashes', k) = getSourceHash(source_hashes, k)
                 /\ Cardinality(SourceRowsOf(source_hashes', k)) <= 1
        /\ last'.op = "getSourceHash" =>
               /\ source_hashes' = source_hashes
               /\ (SourceRowsOf(source_hashes, last'.keyPath) = {} => last'.ret = Null)
      ]_vars

C11_Witness ==
    /\ last.op = "getSourceHash"
    /\ last.ret = computeHash(<<"Hello">>)
    /\ \E r \in source_hashes : r.key_path # last.keyPath /\ r.value_hash # last.ret

\* C12: every sync_status row has a status among CLEAN, DIRTY, FAILED, MANUAL and
\* SKIPPED, and an updateSyncStatus call with any other status value fails and
\* leaves the table as it was.
C12_StatusConstraint ==
    [][ /\ \A r \in sync_status' : r.status \in Statuses
        /\ (last'.op = "updateSyncStatus" /\ last'.status \notin Statuses) =>
               /\ last'.threw
               /\ sync_status' = sync_status
      ]_vars

-----------------------------------------------------------------------------
(* SpecTransaction: callers running ledger writes inside transaction(fn).   *)
(* better-sqlite3's db.transaction(fn)() issues BEGIN, runs fn, then COMMIT *)
(* and returns fn's value, or ROLLBACK and rethrows when fn throws.         *)

MaxTxWrites == 2
MaxRuns == 2

TxPairs == {<<"greeting", "fr">>, <<"greeting", "de">>}
TxStatuses == {"CLEAN", "FAILED"}
TxResults == {"done", "partial"}

LedgerSnapshot ==
    [source_hashes |-> source_hashes, sync_status |-> sync_status,
     run_history |-> run_history, targetFiles |-> targetFiles]

\* mutant: the writes of a failed fn are kept
txRollback_keepsWrites(saved, current) == current

\* ROLLBACK: the tables as they were at BEGIN
txRollback(saved, current) == saved

\* COMMIT: the tables as fn left them
txCommit(saved, current) == current

TxBegin ==
    /\ pc = "idle"
    /\ pc' = "tx"
    /\ run' = [mode |-> "transaction", writes |-> 0]
    /\ pre' = LedgerSnapshot
    /\ last' = [op |-> "begin"]
    /\ UNCHANGED <<ledgerVars, targetFiles, sourceUnits, sent, wrote, ops>>

TxCanWrite == pc = "tx" /\ run.writes < MaxTxWrites

TxUpdateSourceHash(k, h) ==
    /\ TxCanWrite
    /\ source_hashes' = updateSourceHash(source_hashes, k, h, None, None)
    /\ run' = [run EXCEPT !.writes = @ + 1]
    /\ last' = [op |-> "updateSourceHash", keyPath |-> k, valueHash |-> h]
    /\ UNCHANGED <<sync_status, run_history, targetFiles, sourceUnits, pc, pre, sent, wrote, ops>>

TxUpdateSyncStatus(k, l, st) ==
    /\ TxCanWrite
    /\ sync_status' = updateSyncStatus(sync_status, k, l, PlannerTargetHash, st, None, None)
    /\ run' = [run EXCEPT !.writes = @ + 1]
    /\ last' = [op |-> "updateSyncStatus", keyPath |-> k, langCode |-> l, status |-> st,
                threw |-> FALSE]
    /\ UNCHANGED <<source_hashes, run_history, targetFiles, sourceUnits, pc, pre, sent, wrote, ops>>

TxStartRun ==
    /\ TxCanWrite
    /\ Cardinality(run_history) < MaxRuns
    /\ run_history' = startRun(run_history, RunIds[Cardinality(run_history) + 1], 0,
                               "import", "manual-import")
    /\ run' = [run EXCEPT !.writes = @ + 1]
    /\ last' = [op |-> "startRun"]
    /\ UNCHANGED <<source_hashes, sync_status, targetFiles, sourceUnits, pc, pre, sent, wrote, ops>>

\* fn throws: ROLLBACK, and the error reaches the caller of transaction
TxThrows ==
    /\ pc = "tx"
    /\ pc' = "returned"
    /\ LET back == txRollback(pre, LedgerSnapshot)
       IN  /\ source_hashes' = back.source_hashes
           /\ sync_status' = back.sync_status
           /\ run_history' = back.run_history
    /\ run' = NoRun
    /\ last' = [op |-> "transaction", threw |-> TRUE, writes |-> run.writes]
    /\ UNCHANGED <<targetFiles, sourceUnits, pre, sent, wrote, ops>>

\* fn returns v: COMMIT, and transaction returns v
TxReturns(v) ==
    /\ pc = "tx"
    /\ pc' = "returned"
    /\ LET kept == txCommit(pre, LedgerSnapshot)
       IN  /\ source_hashes' = kept.source_hashes
           /\ sync_status' = kept.sync_status
           /\ run_history' = kept.run_history
    /\ run' = NoRun
    /\ last' = [op |-> "transaction", threw |-> FALSE, writes |-> run.writes,
                fnRet |-> v, ret |-> v]
    /\ UNCHANGED <<targetFiles, sourceUnits, pre, sent, wrote, ops>>

TransactionNext ==
    \/ TxBegin
    \/ \E k \in Keys, h \in SourceHashes : TxUpdateSourceHash(k, h)
    \/ \E p \in TxPairs, st \in TxStatuses : TxUpdateSyncStatus(p[1], p[2], st)
    \/ TxStartRun
    \/ TxThrows
    \/ \E v \in TxResults : TxReturns(v)
    \/ PResume

SpecTransaction == LedgerInit /\ [][TransactionNext]_vars

\* C13: when fn throws, the three tables are as they were before transaction was
\* called and the caller gets the error; when fn returns, the tables are as fn's
\* writes left them and transaction returns fn's value.
C13_TransactionAllOrNothing ==
    [][ last'.op = "transaction" =>
          IF last'.threw
          THEN /\ source_hashes' = pre.source_hashes
               /\ sync_status' = pre.sync_status
               /\ run_history' = pre.run_history
          ELSE /\ ledgerVars' = ledgerVars
               /\ last'.ret = last'.fnRet
      ]_vars

C13_Witness ==
    /\ last.op = "transaction"
    /\ last.threw
    /\ last.writes = MaxTxWrites
    /\ sync_status # {}
    /\ source_hashes # {}

-----------------------------------------------------------------------------
(* SpecImport: bootstrapping the ledger from existing translation files.     *)
(* importExistingTranslation and bulkImportTranslations are called by the    *)
(* import command (config/schema.ts line 886) and by tests/ledger.prop.test  *)
(* but their bodies are not among the sources; they follow the specification *)
(* of the ledger: a record marks its pair CLEAN with the record's hashes, a  *)
(* bulk import skips the records whose pair is already CLEAN and counts.     *)

MaxRecords == 2

ImportRecord(k, l, sh, th) ==
    [keyPath |-> k, langCode |-> l, sourceHash |-> sh, targetHash |-> th]

ImportRecords ==
    {ImportRecord(p[1], p[2], computeHash(<<"Hello">>), th) : p \in TxPairs, th \in TargetHashes}

ImportLists == SeqsUpTo(ImportRecords, MaxRecords) \ {<<>>}

ImportStatistics(total, imported, skipped, errors) ==
    [totalRecords |-> total, imported |-> imported, skipped |-> skipped, errors |-> errors]

\* the source hash is stored and the pair marked CLEAN with the target hash
importExistingTranslation(led, rec) ==
    [ source_hashes |-> updateSourceHash(led.source_hashes, rec.keyPath, rec.sourceHash, None, None),
      sync_status |-> updateSyncStatus(led.sync_status, rec.keyPath, rec.langCode,
                                       rec.targetHash, "CLEAN", None, None) ]

\* mutant: a pair that is already CLEAN is imported again
importSkips_never(ss, rec) == FALSE

\* a record is skipped when its pair is already CLEAN
importSkips(ss, rec) == StatusOf(ss, rec.keyPath, rec.langCode) = "CLEAN"

\* the records in order, inside one transaction; acc = [led, imported, skipped]
RECURSIVE importLoop(_, _, _)
importLoop(records, i, acc) ==
    IF i > Len(records) THEN acc
    ELSE IF importSkips(acc.led.sync_status, records[i])
         THEN importLoop(records, i + 1, [acc EXCEPT !.skipped = @ + 1])
         ELSE importLoop(records, i + 1,
                         [acc EXCEPT !.led = importExistingTranslation(acc.led, records[i]),
                                     !.imported = @ + 1])

bulkImportTranslations(sh, ss, records) ==
    LET out == importLoop(records, 1,
                          [led |-> [source_hashes |-> sh, sync_status |-> ss],
                           imported |-> 0, skipped |-> 0])
    IN  [ led |-> out.led,
          stats |-> ImportStatistics(Len(records), out.imported, out.skipped, 0) ]

\* again: the call before this one was a bulk import of the same records
IBulkImport(records) ==
    LET out == bulkImportTranslations(source_hashes, sync_status, records)
    IN  /\ pc = "idle"
        /\ source_hashes' = out.led.source_hashes
        /\ sync_status' = out.led.sync_status
        /\ pre' = LedgerSnapshot
        /\ last' = [op |-> "bulkImportTranslations", records |-> records, ret |-> out.stats,
                    again |-> (last.op = "bulkImportTranslations" /\ last.records = records)]
        /\ UNCHANGED <<run_history, targetFiles, sourceUnits, pc, run, sent, wrote, ops>>

\* a later run fails a pair
IMarkFailed(k, l) ==
    /\ pc = "idle"
    /\ sync_status' = updateSyncStatus(sync_status, k, l, EmptyStr, "FAILED", None, None)
    /\ last' = [op |-> "updateSyncStatus", keyPath |-> k, langCode |-> l]
    /\ UNCHANGED <<source_hashes, run_history, compilerVars, ops>>

ImportNext ==
    \/ \E records \in ImportLists : IBulkImport(records)
    \/ \E p \in TxPairs : IMarkFailed(p[1], p[2])

SpecImport == LedgerInit /\ [][ImportNext]_vars

-----------------------------------------------------------------------------
(* SpecValidate: TranslationValidationPipeline.validate applied to one source *)
(* unit, one translated text and one configuration, as                        *)
(* tests/planner.prop.test.ts applies it.                                     *)

MaxTokens == 3

ValidationTokens == {" ", "Bonjour", "Hello", "{name}", "Acme", "{{count}}"}

TranslatedTexts == SeqsUpTo(ValidationTokens, MaxTokens)

\* the empty source text is what retryFailed puts in the units it rebuilds
ValidationSources ==
    { <<>>, <<"Hello">>, <<"Acme", " ", "{name}">>, <<"{{count}}">> }

\* maxLengthRatio 0 passes the schema's min(0) and falls back to the default
ValidationConfigs ==
    [ preservePlaceholders : BOOLEAN,
      maxLengthRatio       : {0, 1},
      preventSourceLeakage : BOOLEAN,
      brandNames           : {<<>>, <<"Acme">>} ]

ValidateInit ==
    /\ InitCommon
    /\ \E text \in ValidationSources : sourceUnits = <<createSourceUnit("greeting", text)>>

VValidate(config, translatedText) ==
    /\ pc = "idle"
    /\ last.op = "init"
    /\ pc' = "returned"
    /\ last' = [op |-> "validate", config |-> config, translatedText |-> translatedText,
                ret |-> validate(config, translatedText, sourceUnits[1])]
    /\ UNCHANGED <<ledgerVars, targetFiles, sourceUnits, run, pre, sent, wrote, ops>>

ValidateNext ==
    \E config \in ValidationConfigs, translatedText \in TranslatedTexts :
        VValidate(config, translatedText)

SpecValidate == ValidateInit /\ [][ValidateNext]_vars

Blank(text) == \A i \in 1..Len(text) : text[i] = " "

ErrorsOfType(list, type) == SelectSeq(list, LAMBDA e : e.type = type)

CountOf(list, type, field) ==
    Len(SelectSeq(list, LAMBDA e : e.type = type /\ e.field = field))

Placeholders == {PlaceholderOrder[i] : i \in 1..Len(PlaceholderOrder)}

PlaceholderErrorTypes == {"MISSING_PLACEHOLDER", "EXTRA_PLACEHOLDER"}

\* C16: with preservePlaceholders on and a translation that is not blank, validate
\* reports one MISSING_PLACEHOLDER error per placeholder recorded on the source
\* unit and absent from the translation, one EXTRA_PLACEHOLDER error per
\* placeholder of the translation not recorded on the unit, none when the two
\* sets are equal, and a result with a placeholder error is not valid.
C16_PlaceholderErrors ==
    (last.op = "validate" /\ last.config.preservePlaceholders /\ ~Blank(last.translatedText)) =>
        LET recorded == sourceUnits[1].placeholders
            found == extractPlaceholders(last.translatedText)
            errors == last.ret.errors
        IN  /\ \A ph \in Placeholders :
                   /\ CountOf(errors, "MISSING_PLACEHOLDER", ph) =
                          (IF ph \in recorded \ found THEN 1 ELSE 0)
                   /\ CountOf(errors, "EXTRA_PLACEHOLDER", ph) =
                          (IF ph \in found \ recorded THEN 1 ELSE 0)
            /\ recorded = found =>
                   \A i \in 1..Len(errors) : errors[i].type \notin PlaceholderErrorTypes
            /\ (\E i \in 1..Len(errors) : errors[i].type \in PlaceholderErrorTypes) =>
                   ~last.ret.isValid

C16_Witness ==
    /\ last.op = "validate"
    /\ last.config.preservePlaceholders
    /\ Len(ErrorsOfType(last.ret.errors, "MISSING_PLACEHOLDER")) = 1
    /\ Len(ErrorsOfType(last.ret.errors, "EXTRA_PLACEHOLDER")) = 2

\* C17: validate returns isValid = true exactly when it returns no error; a
\* result whose only findings are warnings is valid.
C17_ValidIffNoErrors ==
    last.op = "validate" =>
        /\ last.ret.isValid <=> (Len(last.ret.errors) = 0)
        /\ (Len(last.ret.errors) = 0 /\ Len(last.ret.warnings) > 0) => last.ret.isValid

C17_Witness ==
    /\ last.op = "validate"
    /\ last.ret.isValid
    /\ CountOf(last.ret.warnings, "LENGTH_RATIO_EXCEEDED", "") = 1
    /\ CountOf(last.ret.warnings, "MISSING_BRAND_NAME", "Acme") = 1

\* the product of the factors that apply, in thousandths
ExpectedConfidence(placeholderError, lengthWarning, leakage) ==
    LET a == IF placeholderError THEN 500 ELSE 1000
        b == IF lengthWarning THEN (a * 8) \div 10 ELSE a
    IN  IF leakage THEN (b * 3) \div 10 ELSE b

\* C18: for a translation that is not blank the confidence is 1.0 times 0.5 when a
\* placeholder error was reported, times 0.8 when the length-ratio warning fired,
\* times 0.3 when source leakage was flagged; it lies in [0, 1] and is 1.0 when
\* none of the three fired.
C18_ConfidenceProduct ==
    (last.op = "validate" /\ ~Blank(last.translatedText)) =>
        LET errors == last.ret.errors
            placeholderError ==
                \E i \in 1..Len(errors) : errors[i].type \in PlaceholderErrorTypes
            lengthWarning == CountOf(last.ret.warnings, "LENGTH_RATIO_EXCEEDED", "") > 0
            leakage == CountOf(errors, "SOURCE_LEAKAGE", "") > 0
        IN  /\ last.ret.confidence = ExpectedConfidence(placeholderError, lengthWarning, leakage)
            /\ last.ret.confidence \in 0..1000
            /\ (~placeholderError /\ ~lengthWarning /\ ~leakage) => last.ret.confidence = 1000
            /\ ~last.config.preservePlaceholders => ~placeholderError
            /\ ~last.config.preventSourceLeakage => ~leakage

C18_Witness ==
    /\ last.op = "validate"
    /\ last.ret.confidence = 120
    /\ Len(last.ret.errors) >= 2
    /\ Len(last.ret.warnings) >= 1

-----------------------------------------------------------------------------
(* Result handling of a sync run *)

\* the step handles result number run.resIdx of the current batch of a sync run
HandlesSyncResult(kinds) ==
    /\ last'.op \in kinds
    /\ pc = "results"
    /\ run.mode = "sync"
    /\ run.resIdx <= Len(CurrentBatch.sourceUnits)

ResultUnit == CurrentBatch.sourceUnits[run.resIdx]
ResultText == run.results[run.resIdx]
ResultAccepted == validate(DefaultValidation, ResultText, ResultUnit).isValid

CommittedClean(ss, k, l, text) ==
    \E r \in RowsOf(ss, k, l) : r.status = "CLEAN" /\ r.target_hash = computeHash(text)

RejectedFailed(k, l) ==
    /\ StatusOf(sync_status', k, l) = "FAILED"
    /\ <<k, l>> \notin wrote'
    /\ targetFiles' = targetFiles

\* only the handling of a pair's own result changes the pair's row during a sync run
OnlyOwnResultChangesRow ==
    \A k \in Keys, l \in Langs :
        (run.mode = "sync" /\ RowsOf(sync_status', k, l) # RowsOf(sync_status, k, l)) =>
            /\ HandlesSyncResult({"result"})
            /\ k = ResultUnit.keyPath
            /\ l = CurrentBatch.targetLanguage

ActualSourceText(k) ==
    sourceUnits[CHOOSE i \in 1..Len(sourceUnits) : sourceUnits[i].keyPath = k].sourceText

\* C20: with preservePlaceholders on, whenever a step of a sync or retryFailed run
\* sets a pair to CLEAN, the placeholders of the accepted text are exactly the
\* placeholders of the key's actual source text.
C20_CleanKeepsPlaceholders ==
    [][ \A k \in Keys, l \in Langs :
          ( /\ last'.op = "result"
            /\ pc = "results"
            /\ RowsOf(sync_status', k, l) # RowsOf(sync_status, k, l)
            /\ StatusOf(sync_status', k, l) = "CLEAN" )
          => extractPlaceholders(ResultText) = extractPlaceholders(ActualSourceText(k))
      ]_vars

-----------------------------------------------------------------------------
(* Partial failure of a sync run *)

\* the pair of unit number i of a batch
PairAt(batch, i) == <<batch.sourceUnits[i].keyPath, batch.targetLanguage>>

\* the target file of the pair's language holds, under the pair's key path, the
\* text whose hash the pair's row records
FileHoldsCommitted(k, l) ==
    \E t \in FileText(targetFiles[l], k) :
        computeHash(t) = getSyncStatus(sync_status, k, l).target_hash

\* C21: in a sync run none of whose batches ended in the catch, a unit that
\* validation rejects stops nothing: every planned pair is either rejected (FAILED,
\* not written) or written and committed CLEAN, and the returned statistics count
\* the rejected pairs in failedUnits and the others in translatedUnits.
C21_RejectionDoesNotAbort ==
    (SyncReturned /\ last.aborted = {}) =>
        LET planned == PlanPairs(last.plan.batches)
        IN  /\ \A p \in planned :
                   IF p \in last.rejected
                   THEN /\ StatusOf(sync_status, p[1], p[2]) = "FAILED"
                        /\ p \notin wrote
                   ELSE /\ p \in wrote
                        /\ StatusOf(sync_status, p[1], p[2]) = "CLEAN"
                        /\ FileHoldsCommitted(p[1], p[2])
            /\ last.ret.failedUnits = Cardinality(last.rejected)
            /\ last.ret.translatedUnits = Cardinality(planned \ last.rejected)

C21_Witness ==
    /\ SyncReturned
    /\ last.aborted = {}
    /\ \E b \in 1..Len(last.plan.batches) :
           LET batch == last.plan.batches[b]
           IN  \E i, j \in 1..Len(batch.sourceUnits) :
                   /\ i < j
                   /\ PairAt(batch, i) \in last.rejected
                   /\ PairAt(batch, j) \in wrote
    /\ \E b1, b2 \in 1..Len(last.plan.batches) :
           /\ b1 < b2
           /\ BatchPairs(last.plan.batches[b1]) \cap last.rejected # {}
           /\ BatchPairs(last.plan.batches[b2]) \cap wrote # {}

\* C22: in sync and in retryFailed, a step sets a pair's row to CLEAN only
\* together with the successful write of the pair's translation (the pair is
\* among the written ones and the target file holds the text the row's hash is
\* of), and a write that throws leaves every row as it was.
C22_CleanOnlyAfterWrite ==
    [][ /\ \A k \in Keys, l \in Langs :
              ( /\ run.mode \in {"sync", "retry"}
                /\ RowsOf(sync_status', k, l) # RowsOf(sync_status, k, l)
                /\ StatusOf(sync_status', k, l) = "CLEAN" )
              => /\ <<k, l>> \in wrote'
                 /\ \E t \in FileText(targetFiles'[l], k) :
                        computeHash(t) = getSyncStatus(sync_status', k, l).target_hash
        /\ last'.op = "writeThrows" =>
              /\ sync_status' = sync_status
              /\ wrote' = wrote
      ]_vars

\* a retryFailed run in which one write failed and another pair was committed
C22_Witness ==
    /\ last.op = "retryFailed"
    /\ last.providerCreated
    /\ \E p \in last.aborted :
           /\ p \notin wrote
           /\ StatusOf(sync_status, p[1], p[2]) = "FAILED"
    /\ \E p \in wrote : StatusOf(sync_status, p[1], p[2]) = "CLEAN"

-----------------------------------------------------------------------------
(* SpecKill: sync runs that may be killed at any point, between edits of the *)
(* source.  A killed run leaves its run_history row unfinished.              *)

MaxKills == 1

KilledRuns == Cardinality({r \in run_history : r.finished_at = None})

\* the ledger after startRun and the first n updateSourceHash calls of lines 53-57
sourceHashesPrefix(sh, units, runId, n) == updateSourceHashes(sh, SubSeq(units, 1, n), runId)

(* the process dies in lines 53-62: after startRun and n source hashes *)
KillWhileStarting(n) ==
    /\ pc = "idle"
    /\ ops < MaxOps
    /\ KilledRuns < MaxKills
    /\ run_history' = startRun(run_history, FreshRunId, Now, ModelUsed, ConfigHash)
    /\ source_hashes' = sourceHashesPrefix(source_hashes, sourceUnits, FreshRunId, n)
    /\ last' = [op |-> "killed", before |-> Snapshot, committed |-> {}]
    /\ pre' = Snapshot
    /\ sent' = {}
    /\ wrote' = {}
    /\ UNCHANGED <<sync_status, targetFiles, sourceUnits, pc, run, ops>>

(* the process dies between two steps of the batch loop *)
KillBetweenSteps ==
    /\ pc \in {"batch", "results"}
    /\ run.mode = "sync"
    /\ KilledRuns <= MaxKills
    /\ pc' = "idle"
    /\ run' = NoRun
    /\ last' = [op |-> "killed", before |-> pre, committed |-> wrote]
    /\ ops' = ops - 1
    /\ UNCHANGED <<ledgerVars, targetFiles, sourceUnits, pre, sent, wrote>>

(* the process dies after the rename of line 141 and before the commit of line 145 *)
KillAfterWrite ==
    /\ pc = "results"
    /\ run.mode = "sync"
    /\ KilledRuns <= MaxKills
    /\ run.resIdx <= Len(run.results)
    /\ run.resIdx <= Len(CurrentBatch.sourceUnits)
    /\ acceptResult(validate(DefaultValidation, ResultText, ResultUnit))
    /\ targetFiles' = [targetFiles EXCEPT ![CurrentBatch.targetLanguage] =
                           writeTranslations(@, flatToNested(ResultUnit.keyPath, ResultText))]
    /\ wrote' = wrote \cup {<<ResultUnit.keyPath, CurrentBatch.targetLanguage>>}
    /\ pc' = "idle"
    /\ run' = NoRun
    /\ last' = [op |-> "killed", before |-> pre, committed |-> wrote]
    /\ ops' = ops - 1
    /\ UNCHANGED <<ledgerVars, sourceUnits, pre, sent>>

KillNext ==
    \/ \E force \in BOOLEAN : SyncBegin(force)
    \/ \E results \in ResultLists(Len(sourceUnits)) : TranslateReturns(results)
    \/ ProcessResult
    \/ SyncFinish
    \/ \E i \in 1..Len(sourceUnits), text \in SourceTexts : EditSource(i, text)
    \/ \E n \in 0..Len(sourceUnits) : KillWhileStarting(n)
    \/ KillBetweenSteps
    \/ KillAfterWrite

SpecKill == Init /\ [][KillNext]_vars

\* C23: the sync run that follows a killed sync run over the same source plans
\* every pair that the decision table selects against the ledger as it stood
\* before the killed run, unless the killed run committed the pair as CLEAN.
C23_KilledRunLosesNoPair ==
    [][ (last.op = "killed" /\ last'.op \in {"syncBegin", "sync"}) =>
          \A i \in 1..Len(sourceUnits), l \in Langs :
              LET u == sourceUnits[i]
              IN  ( /\ needsTranslation(last.before.source_hashes, last.before.sync_status, u, l)
                    /\ <<u.keyPath, l>> \notin last.committed )
                  => <<u.keyPath, l>> \in PlanPairs(last'.plan.batches)
      ]_vars

-----------------------------------------------------------------------------
(* SpecOrder: the batches of one plan handled in any order.  The source has  *)
(* one unit more than a batch holds, so every language has two batches; its  *)
(* last unit comes from a second source file and may repeat the first key.   *)

FillerKeys ==
    << "k02", "k03", "k04", "k05", "k06", "k07", "k08", "k09", "k10", "k11",
       "k12", "k13", "k14", "k15", "k16", "k17", "k18", "k19", "k20" >>

\* extract over two source files: the units of the first file, then the second's
OrderUnits(firstText, lastKey, lastText) ==
    <<createSourceUnit("greeting", firstText)>>
    \o [i \in 1..Len(FillerKeys) |-> createSourceUnit(FillerKeys[i], <<"Hello">>)]
    \o <<createSourceUnit(lastKey, lastText)>>

\* the provider's text for unit number n of the source list
OrderTexts(firstResult, lastResult, count) ==
    [n \in 1..count |-> IF n = 1 THEN firstResult
                        ELSE IF n = count THEN lastResult ELSE <<"Bonjour">>]

BatchOrders(n) == {f \in [1..n -> 1..n] : \A i, j \in 1..n : f[i] = f[j] => i = j}

\* lines 122-154 for one result: the ledger and the files afterwards
commitResult(st, sourceUnit, lang, text) ==
    IF acceptResult(validate(DefaultValidation, text, sourceUnit))
    THEN [ sync_status |-> updateSyncStatus(st.sync_status, sourceUnit.keyPath, lang,
                                            computeHash(text), "CLEAN",
                                            Some(ModelFingerprint), Some(PromptVersion)),
           targetFiles |-> [st.targetFiles EXCEPT ![lang] =
                               writeTranslations(@, flatToNested(sourceUnit.keyPath, text))] ]
    ELSE [ sync_status |-> updateSyncStatus(st.sync_status, sourceUnit.keyPath, lang,
                                            EmptyStr, "FAILED", None, None),
           targetFiles |-> st.targetFiles ]

\* the result loop of one batch; the batch of offset o holds the selected units
\* o+1, o+2, ... of an empty ledger's plan
RECURSIVE commitBatch(_, _, _, _)
commitBatch(st, batch, texts, i) ==
    IF i > Len(batch.sourceUnits) THEN st
    ELSE commitBatch(commitResult(st, batch.sourceUnits[i], batch.targetLanguage,
                                  texts[batch.batchId[3] + i]),
                     batch, texts, i + 1)

OrderInit ==
    /\ InitCommon
    /\ \E firstText \in SourceTexts, lastKey \in {"greeting", "k21"}, lastText \in SourceTexts :
           sourceUnits = OrderUnits(firstText, lastKey, lastText)

(* sync up to the batch loop, with the provider's texts and the order fixed *)
OBegin(texts, order) ==
    /\ pc = "idle"
    /\ last.op = "init"
    /\ LET sh == updateSourceHashes(source_hashes, sourceUnits, FreshRunId)
           plan == createPlan(sh, sync_status, sourceUnits, TargetLanguages)
       IN  /\ Len(order) = Len(plan.batches)
           /\ source_hashes' = sh
           /\ run_history' = startRun(run_history, FreshRunId, Now, ModelUsed, ConfigHash)
           /\ run' = [mode |-> "order", plan |-> plan, order |-> order, texts |-> texts,
                       done |-> 0,
                       inOrder |-> [sync_status |-> sync_status, targetFiles |-> targetFiles]]
           /\ last' = [op |-> "syncBegin", force |-> FALSE, plan |-> plan]
    /\ pc' = "batch"
    /\ pre' = Snapshot
    /\ UNCHANGED <<sync_status, targetFiles, sourceUnits, sent, wrote, ops>>

(* one batch, the next of the order: translate, then the result loop; beside *)
(* it the same number of batches is handled in the plan's order               *)
OProcessBatch ==
    /\ pc = "batch"
    /\ run.mode = "order"
    /\ run.done < Len(run.order)
    /\ LET batch == run.plan.batches[run.order[run.done + 1]]
           st == commitBatch([sync_status |-> sync_status, targetFiles |-> targetFiles],
                             batch, run.texts, 1)
       IN  /\ sync_status' = st.sync_status
           /\ targetFiles' = st.targetFiles
           /\ sent' = sent \cup BatchPairs(batch)
    /\ run' = [run EXCEPT !.done = @ + 1,
                          !.inOrder = commitBatch(@, run.plan.batches[run.done + 1],
                                                  run.texts, 1)]
    /\ last' = [op |-> "batch"]
    /\ UNCHANGED <<source_hashes, run_history, sourceUnits, pc, pre, wrote, ops>>

OrderNext ==
    \/ \E firstResult, lastResult \in ProviderTexts, order \in BatchOrders(2 * Len(TargetLanguages)) :
           OBegin(OrderTexts(firstResult, lastResult, Len(sourceUnits)), order)
    \/ OProcessBatch

SpecOrder == OrderInit /\ [][OrderNext]_vars

\* the ledger and files when the batches handled so far are the first of the
\* plan, in the plan's order (run.inOrder follows the run batch by batch)
InPlanOrder == run.inOrder

-----------------------------------------------------------------------------
(* A first sync in which everything succeeds *)

\* the call began on an empty ledger, every translate call returned, every
\* result was valid and every write succeeded
FirstRunAllValid ==
    /\ SyncReturned
    /\ pre.sync_status = {}
    /\ pre.source_hashes = {}
    /\ last.aborted = {}
    /\ last.rejected = {}

\* C25: a sync on an empty ledger whose provider returns a valid translation for
\* every unit ends with every (key, language) pair CLEAN, the committed text under
\* the key's path in the language's file, translatedUnits = units x languages and
\* failedUnits = 0.
C25_FirstSyncAllClean ==
    FirstRunAllValid =>
        /\ \A i \in 1..Len(sourceUnits), l \in Langs :
               /\ StatusOf(sync_status, sourceUnits[i].keyPath, l) = "CLEAN"
               /\ FileHoldsCommitted(sourceUnits[i].keyPath, l)
               /\ <<sourceUnits[i].keyPath, l>> \in sent
        /\ last.ret.translatedUnits = Len(sourceUnits) * Cardinality(Langs)
        /\ last.ret.failedUnits = 0

C25_Witness ==
    /\ FirstRunAllValid
    /\ last.ret.translatedUnits = 4
    /\ Cardinality(sync_status) = 4
    /\ \A l \in Langs : Cardinality(targetFiles[l]) = 2

-----------------------------------------------------------------------------
(* SpecBatches: createPlan over sources of up to MaxBatchUnits strings, part *)
(* of which an earlier run committed for the first language.                 *)

MaxBatchUnits == 45

\* unit i of the source is CLEAN for the first language when Stride divides i
Strides == {0, 2, 3}

BatchUnits(n) == [i \in 1..n |-> createSourceUnit(ToString(i), <<"Hello">>)]

BatchesInit ==
    /\ \E n \in 0..MaxBatchUnits, stride \in Strides :
           /\ sourceUnits = BatchUnits(n)
           /\ source_hashes = updateSourceHashes({}, BatchUnits(n), "run_1")
           /\ sync_status =
                  { StatusRow(ToString(i), TargetLanguages[1].shortCode, PlannerTargetHash,
                              "CLEAN", Null, Null) :
                        i \in {x \in 1..n : stride > 0 /\ x % stride = 0} }
    /\ run_history = {}
    /\ targetFiles = [l \in Langs |-> {}]
    /\ pc = "idle"
    /\ run = NoRun
    /\ pre = NoPre
    /\ sent = {}
    /\ wrote = {}
    /\ last = [op |-> "init"]
    /\ ops = 0

\* values of advanced.batchSize in the configuration (schema: an integer >= 1)
ConfiguredBatchSizes == {1, 5, 20, 30}

(* sync, line 62, under a configuration with the given advanced.batchSize: the *)
(* planner is built from the ledger alone (line 26) and createPlan is handed   *)
(* the units and the languages                                                 *)
BSyncPlans(advancedBatchSize) ==
    /\ pc = "idle"
    /\ pc' = "returned"
    /\ last' = [op |-> "syncPlan", batchSize |-> advancedBatchSize,
                plan |-> createPlan(source_hashes, sync_status, sourceUnits, TargetLanguages)]
    /\ UNCHANGED <<ledgerVars, targetFiles, sourceUnits, run, pre, sent, wrote, ops>>

BatchesNext ==
    \/ \E langs \in LanguageLists : PCreatePlan(sourceUnits, langs)
    \/ \E advancedBatchSize \in ConfiguredBatchSizes : BSyncPlans(advancedBatchSize)
    \/ PResume

SpecBatches == BatchesInit /\ [][BatchesNext]_vars

BatchesOf(batches, l) == SelectSeq(batches, LAMBDA b : b.targetLanguage = l)

\* C26: for each language of a createPlan call, the language's batches are
\* non-empty, hold at most 20 units and exactly 20 but for the last, and
\* concatenated in order they are the units selected for the language, in the
\* order of the input list; no batch is of another language.
C26_BatchesPartitionSelection ==
    last.op = "createPlan" =>
        /\ \A b \in 1..Len(last.plan.batches) :
               last.plan.batches[b].targetLanguage \in LangCodes(last.langs)
        /\ \A l \in LangCodes(last.langs) :
               LET mine == BatchesOf(last.plan.batches, l)
               IN  /\ \A j \in 1..Len(mine) :
                          /\ Len(mine[j].sourceUnits) >= 1
                          /\ Len(mine[j].sourceUnits) <= 20
                          /\ j < Len(mine) => Len(mine[j].sourceUnits) = 20
                   /\ PlannedFor(last.plan.batches, l) =
                          detectChanges(source_hashes, sync_status, last.units, l)

C26_Witness ==
    /\ last.op = "createPlan"
    /\ Len(BatchesOf(last.plan.batches, "de")) = 3
    /\ Len(BatchesOf(last.plan.batches, "fr")) = 2
    /\ Len(PlannedFor(last.plan.batches, "fr")) = 30
    /\ Len(last.plan.batches[Len(last.plan.batches)].sourceUnits) = 5

\* C27: the plan of a sync run under advanced.batchSize = n has no batch of more
\* than n units, and every batch but the last of a language has exactly n.
C27_ConfiguredBatchSize ==
    last.op = "syncPlan" =>
        \A l \in Langs :
            LET mine == BatchesOf(last.plan.batches, l)
            IN  \A j \in 1..Len(mine) :
                    /\ Len(mine[j].sourceUnits) <= last.batchSize
                    /\ j < Len(mine) => Len(mine[j].sourceUnits) = last.batchSize

-----------------------------------------------------------------------------
(* SpecRuns: the run_history table driven through startRun, completeRun and  *)
(* cleanupHistory while the clock advances and the other tables are written. *)

MaxHistory == 3
MsPerSecond == 1000

\* Date.now() values the calls are made at
ClockValues == {0, MsPerSecond, MsPerSecond + 1}

\* Math.random().toString(36).substr(2, 9)
RandomSuffixes == {"k3x9q", "p07ab"}

\* `run_${Date.now()}_${random}`
makeRunId(now, suffix) == <<"run", now, suffix>>

UnknownRunId == makeRunId(0, "none")

\* CURRENT_TIMESTAMP: the time in whole seconds
currentTimestamp(now) == now \div MsPerSecond

\* mutant: ORDER BY started_at ASC
newestRuns_oldest(rh, keepLast) ==
    { K \in SUBSET rh :
        /\ Cardinality(K) = Min(Cardinality(rh), keepLast)
        /\ \A k \in K, d \in rh \ K : k.started_at <= d.started_at }

\* SELECT run_id FROM run_history ORDER BY started_at DESC LIMIT keepLast: the
\* row sets the subquery can return; rows of one second come in any order
newestRuns(rh, keepLast) ==
    { K \in SUBSET rh :
        /\ Cardinality(K) = Min(Cardinality(rh), keepLast)
        /\ \A k \in K, d \in rh \ K : k.started_at >= d.started_at }

\* DELETE FROM run_history WHERE run_id NOT IN (the subquery's rows)
cleanupHistory(rh, kept) == {r \in rh : r.run_id \in {k.run_id : k \in kept}}

RTick(t) ==
    /\ t \in ClockValues
    /\ t > ops
    /\ ops' = t
    /\ last' = [op |-> "tick"]
    /\ UNCHANGED <<ledgerVars, compilerVars>>

RStartRun(suffix, modelUsed, configHash) ==
    /\ Cardinality(run_history) < MaxHistory
    /\ LET runId == makeRunId(ops, suffix)
       IN  IF startRunCollides(run_history, runId)
           THEN /\ last' = [op |-> "startRun", threw |-> TRUE, before |-> run_history]
                /\ UNCHANGED run_history
           ELSE /\ run_history' = startRun(run_history, runId, currentTimestamp(ops),
                                           modelUsed, configHash)
                /\ last' = [op |-> "startRun", threw |-> FALSE, before |-> run_history,
                            ret |-> runId, modelUsed |-> modelUsed, configHash |-> configHash]
    /\ UNCHANGED <<source_hashes, sync_status, compilerVars, ops>>

RCompleteRun(runId, tokensIn, tokensOut, costEstimate) ==
    /\ run_history' = completeRun(run_history, runId, currentTimestamp(ops),
                                  tokensIn, tokensOut, costEstimate)
    /\ last' = [op |-> "completeRun", threw |-> FALSE, runId |-> runId,
                tokensIn |-> tokensIn, tokensOut |-> tokensOut, costEstimate |-> costEstimate]
    /\ UNCHANGED <<source_hashes, sync_status, compilerVars, ops>>

RCleanupHistory(keepLast, kept) ==
    /\ kept \in newestRuns(run_history, keepLast)
    /\ run_history' = cleanupHistory(run_history, kept)
    /\ last' = [op |-> "cleanupHistory", keepLast |-> keepLast, before |-> run_history]
    /\ UNCHANGED <<source_hashes, sync_status, compilerVars, ops>>

RUpdateSourceHash(k, h) ==
    /\ source_hashes' = updateSourceHash(source_hashes, k, h, None, None)
    /\ last' = [op |-> "updateSourceHash"]
    /\ UNCHANGED <<sync_status, run_history, compilerVars, ops>>

RUpdateSyncStatus(k, l, st) ==
    /\ sync_status' = updateSyncStatus(sync_status, k, l, PlannerTargetHash, st, None, None)
    /\ last' = [op |-> "updateSyncStatus"]
    /\ UNCHANGED <<source_hashes, run_history, compilerVars, ops>>

RunsNext ==
    \/ \E t \in ClockValues : RTick(t)
    \/ \E suffix \in RandomSuffixes : RStartRun(suffix, ModelUsed, ConfigHash)
    \/ \E r \in run_history \cup {[run_id |-> UnknownRunId]} :
           RCompleteRun(r.run_id, TokensPerTranslation, TokensPerTranslation, Some(0))
    \/ \E keepLast \in 0..(MaxHistory + 1), kept \in SUBSET run_history :
           RCleanupHistory(keepLast, kept)
    \/ RUpdateSourceHash("greeting", computeHash(<<"Hello">>))
    \/ RUpdateSyncStatus("greeting", "fr", "CLEAN")

SpecRuns == LedgerInit /\ [][RunsNext]_vars

RunIdsOf(rh) == {r.run_id : r \in rh}

\* C28: every startRun call returns a run id that no stored row has and inserts
\* exactly one row, with the start time, the model and the config hash; no call
\* fails on an id collision, two calls within one millisecond included.
C28_StartRunNeverCollides ==
    last.op = "startRun" =>
        /\ ~last.threw
        /\ last.ret \notin RunIdsOf(last.before)
        /\ run_history = last.before \cup
               {RunRow(last.ret, currentTimestamp(ops), last.modelUsed, last.configHash)}
        /\ Cardinality(run_history) = Cardinality(last.before) + 1

\* the fields startRun stores
StartFields(r) == <<r.run_id, r.started_at, r.model_used, r.config_hash>>

\* C29: completeRun raises no error; for a run id without a row it leaves the
\* three tables unchanged, and for a stored run id it sets the finish time and
\* the usage fields of that row and changes nothing else.
C29_CompleteRunTouchesOwnRow ==
    [][ last'.op = "completeRun" =>
          /\ ~last'.threw
          /\ source_hashes' = source_hashes
          /\ sync_status' = sync_status
          /\ IF last'.runId \notin RunIdsOf(run_history)
             THEN run_history' = run_history
             ELSE /\ Cardinality(run_history') = Cardinality(run_history)
                  /\ \A r \in run_history :
                         IF r.run_id # last'.runId
                         THEN r \in run_history'
                         ELSE [ r EXCEPT !.finished_at = Some(currentTimestamp(ops)),
                                         !.tokens_in = Some(last'.tokensIn),
                                         !.tokens_out = Some(last'.tokensOut),
                                         !.cost_estimate_usd = last'.costEstimate ]
                                  \in run_history'
      ]_vars

C29_Witness ==
    /\ last.op = "completeRun"
    /\ last.runId = UnknownRunId
    /\ \E r \in run_history : r.finished_at # None
    /\ \E r \in run_history : r.finished_at = None
    /\ source_hashes # {}
    /\ sync_status # {}

\* C30: cleanupHistory(keepLast) leaves min(N, keepLast) of the N rows, none of
\* them started before a deleted one, and leaves source_hashes and sync_status
\* alone; no other operation removes a run_history row or changes its start fields.
C30_CleanupKeepsNewest ==
    [][ IF last'.op = "cleanupHistory"
        THEN /\ run_history' \subseteq run_history
             /\ Cardinality(run_history') = Min(Cardinality(run_history), last'.keepLast)
             /\ \A k \in run_history', d \in run_history \ run_history' :
                    k.started_at >= d.started_at
             /\ source_hashes' = source_hashes
             /\ sync_status' = sync_status
        ELSE \A r \in run_history :
                 \E r2 \in run_history' : StartFields(r2) = StartFields(r)
      ]_vars

C30_Witness ==
    /\ last.op = "cleanupHistory"
    /\ last.keepLast = 1
    /\ Cardinality(last.before) = 3
    /\ Cardinality(run_history) = 1
    /\ \E a, b \in last.before : a # b /\ a.started_at = b.started_at
    /\ \E d \in last.before \ run_history : \A k \in run_history : d.started_at < k.started_at
    /\ source_hashes # {}
    /\ sync_status # {}

-----------------------------------------------------------------------------
\* getFailedItems over a ledger with FAILED rows in several languages

FailedStatuses == {"CLEAN", "FAILED", "MANUAL"}

\* no filter, the empty string, the two target languages, a language without rows
LangCodeArgs == {None} \cup {Some(c) : c \in Langs \cup {NoLangCode, "es"}}

FUpdateSourceHash(k, h) ==
    /\ source_hashes' = updateSourceHash(source_hashes, k, h, None, None)
    /\ last' = [op |-> "updateSourceHash"]
    /\ UNCHANGED <<sync_status, run_history, compilerVars, ops>>

FUpdateSyncStatus(k, l, st) ==
    /\ sync_status' = updateSyncStatus(sync_status, k, l, PlannerTargetHash, st, None, None)
    /\ last' = [op |-> "updateSyncStatus"]
    /\ UNCHANGED <<source_hashes, run_history, compilerVars, ops>>

FGetFailedItems(langCode) ==
    /\ last' = [op |-> "getFailedItems", langCode |-> langCode,
                ret |-> getFailedItems(sync_status, source_hashes, langCode),
                before |-> LedgerSnapshot]
    /\ UNCHANGED <<ledgerVars, compilerVars, ops>>

FailedNext ==
    \/ \E k \in Keys : FUpdateSourceHash(k, computeHash(<<"Hello">>))
    \/ \E k \in Keys, l \in Langs, st \in FailedStatuses : FUpdateSyncStatus(k, l, st)
    \/ \E langCode \in LangCodeArgs : FGetFailedItems(langCode)

SpecFailed == LedgerInit /\ [][FailedNext]_vars

\* the positions of the result that carry the row of (k, l)
ItemsOf(ret, k, l) == {i \in DOMAIN ret : ret[i].key_path = k /\ ret[i].lang_code = l}

\* the result holds each row of `wanted` once, with the stored source hash of its
\* key (NULL without one), and nothing else
ReturnsExactly(ret, wanted) ==
    /\ \A r \in wanted :
           /\ Cardinality(ItemsOf(ret, r.key_path, r.lang_code)) = 1
           /\ \A i \in ItemsOf(ret, r.key_path, r.lang_code) :
                  ret[i].value_hash = getSourceHash(source_hashes, r.key_path)
    /\ \A i \in DOMAIN ret :
           \E r \in wanted : r.key_path = ret[i].key_path /\ r.lang_code = ret[i].lang_code

LedgerUnchangedBy(rec) ==
    /\ source_hashes = rec.before.source_hashes
    /\ sync_status = rec.before.sync_status
    /\ run_history = rec.before.run_history

\* C31 as stated: getFailedItems returns each FAILED row once and no other row;
\* whenever a langCode is given, the empty string included, it returns the
\* FAILED rows of that language only; the ledger is not modified.
C31_FailedItemsOfLanguage ==
    last.op = "getFailedItems" =>
        /\ ReturnsExactly(last.ret,
               {r \in sync_status : /\ r.status = "FAILED"
                                    /\ (last.langCode # None => r.lang_code = last.langCode[1])})
        /\ LedgerUnchangedBy(last)

\* C31: getFailedItems returns each FAILED row once and no other row; given a
\* non-empty langCode it returns the FAILED rows of that language only, and the
\* empty string selects like no langCode; the ledger is not modified.
C31_FailedItemsOfNonEmptyLanguage ==
    last.op = "getFailedItems" =>
        /\ ReturnsExactly(last.ret,
               {r \in sync_status :
                   /\ r.status = "FAILED"
                   /\ (last.langCode \notin {None, Some(NoLangCode)}
                          => r.lang_code = last.langCode[1])})
        /\ LedgerUnchangedBy(last)

C31_Witness ==
    /\ last.op = "getFailedItems"
    /\ last.langCode = Some("fr")
    /\ Len(last.ret) = 2
    /\ \E r \in sync_status : r.status = "FAILED" /\ r.lang_code = "de"
    /\ \E r \in sync_status : r.status = "MANUAL" /\ r.lang_code = "de"
    /\ \E i \in DOMAIN last.ret : last.ret[i].value_hash = Null
    /\ \E i \in DOMAIN last.ret : last.ret[i].value_hash # Null

-----------------------------------------------------------------------------
\* createPlan before and after a simulated successful translation of a unit list
\* (tests/planner.prop.test.ts, 'should only include dirty or new units')

French == <<TargetLanguages[1]>>

SettleStep(phase, i) == [mode |-> "settle", phase |-> phase, i |-> i]

SettleInit ==
    /\ source_hashes = {}
    /\ sync_status = {}
    /\ run_history = {}
    /\ targetFiles = [l \in Langs |-> {}]
    /\ sourceUnits \in UnitLists
    /\ pc = "idle"
    /\ run = SettleStep("first", 1)
    /\ pre = NoPre
    /\ sent = {}
    /\ wrote = {}
    /\ last = [op |-> "init"]
    /\ ops = 0

\* plan1: createPlan on the empty ledger
SFirstPlan ==
    /\ pc = "idle"
    /\ run.phase = "first"
    /\ pc' = "returned"
    /\ run' = SettleStep("hash", 1)
    /\ last' = [op |-> "createPlan", call |-> 1, units |-> sourceUnits, langs |-> French,
                plan |-> createPlan(source_hashes, sync_status, sourceUnits, French)]
    /\ UNCHANGED <<ledgerVars, targetFiles, sourceUnits, pre, sent, wrote, ops>>

\* the loop body's first call for unit run.i
SUpdateSourceHash ==
    /\ pc = "idle"
    /\ run.phase = "hash"
    /\ run.i <= Len(sourceUnits)
    /\ source_hashes' = updateSourceHash(source_hashes, sourceUnits[run.i].keyPath,
                                         sourceUnits[run.i].sourceHash, None, None)
    /\ run' = SettleStep("status", run.i)
    /\ last' = [op |-> "updateSourceHash"]
    /\ UNCHANGED <<sync_status, run_history, targetFiles, sourceUnits, pc, pre, sent, wrote, ops>>

\* the loop body's second call for unit run.i
SUpdateSyncStatus ==
    /\ pc = "idle"
    /\ run.phase = "status"
    /\ sync_status' = updateSyncStatus(sync_status, sourceUnits[run.i].keyPath,
                                       French[1].shortCode, PlannerTargetHash, "CLEAN",
                                       None, None)
    /\ run' = SettleStep("hash", run.i + 1)
    /\ last' = [op |-> "updateSyncStatus"]
    /\ UNCHANGED <<source_hashes, run_history, targetFiles, sourceUnits, pc, pre, sent, wrote, ops>>

\* plan2: createPlan over the same list once the loop is through
SSecondPlan ==
    /\ pc = "idle"
    /\ run.phase = "hash"
    /\ run.i > Len(sourceUnits)
    /\ pc' = "returned"
    /\ run' = SettleStep("done", run.i)
    /\ last' = [op |-> "createPlan", call |-> 2, units |-> sourceUnits, langs |-> French,
                plan |-> createPlan(source_hashes, sync_status, sourceUnits, French)]
    /\ UNCHANGED <<ledgerVars, targetFiles, sourceUnits, pre, sent, wrote, ops>>

SettleNext ==
    \/ SFirstPlan
    \/ SUpdateSourceHash
    \/ SUpdateSyncStatus
    \/ SSecondPlan
    \/ PResume

SpecSettle == SettleInit /\ [][SettleNext]_vars

\* C32: for every non-empty unit list, lists with a repeated keyPath included,
\* the first createPlan (empty ledger) returns totalUnits = length of the list,
\* and the createPlan after updateSourceHash and updateSyncStatus(CLEAN) for each
\* unit in list order returns totalUnits = 0.
C32_PlanSettles ==
    last.op = "createPlan" =>
        /\ last.call = 1 => last.plan.totalUnits = Len(sourceUnits)
        /\ last.call = 2 => last.plan.totalUnits = 0

-----------------------------------------------------------------------------
\* validate with the placeholder and the leakage stage switched off
\* (tests/planner.prop.test.ts, 'should pass structural validation')

StagesOff(config) == ~config.preservePlaceholders /\ ~config.preventSourceLeakage

-----------------------------------------------------------------------------
\* retryFailed in dry-run mode

\* the FAILED rows a language filter selects
FailedRows(ss, langCode) ==
    {r \in ss : /\ r.status = "FAILED"
                /\ (langCode \notin {None, Some(NoLangCode)} => r.lang_code = langCode[1])}

\* C34: a retryFailed call with dryRun = true calls no provider, writes no
\* target file and leaves source_hashes, sync_status and run_history as they
\* were; it returns recoveredUnits = 0 and remainingFailed = the number of FAILED
\* rows its language filter selects.
C34_DryRunRetryChangesNothing ==
    (last.op = "retryFailed" /\ last.dryRun) =>
        /\ ~last.providerCreated
        /\ sent = {}
        /\ wrote = {}
        /\ targetFiles = pre.targetFiles
        /\ source_hashes = pre.source_hashes
        /\ sync_status = pre.sync_status
        /\ run_history = last.historyBefore
        /\ last.ret.recoveredUnits = 0
        /\ last.ret.remainingFailed = Cardinality(FailedRows(sync_status, last.lang))

C34_Witness ==
    /\ last.op = "retryFailed"
    /\ last.dryRun
    /\ last.lang = Some("fr")
    /\ last.ret.remainingFailed = 1
    /\ \E r \in sync_status : r.status = "FAILED" /\ r.lang_code = "de"
    /\ run_history # {}

-----------------------------------------------------------------------------
\* the planner module's operations and validate over a filled ledger

OCreatePlan(units, langs) ==
    /\ last' = [op |-> "createPlan", units |-> units, langs |-> langs,
                ret |-> createPlan(source_hashes, sync_status, units, langs),
                before |-> LedgerSnapshot]
    /\ UNCHANGED <<ledgerVars, compilerVars, ops>>

OIsManualOverride(k, l, h) ==
    /\ last' = [op |-> "isManualOverride", keyPath |-> k, langCode |-> l, currentHash |-> h,
                ret |-> isManualOverride(sync_status, k, l, h),
                before |-> LedgerSnapshot]
    /\ UNCHANGED <<ledgerVars, compilerVars, ops>>

OValidate(translatedText, sourceUnit) ==
    /\ last' = [op |-> "validate", translatedText |-> translatedText,
                ret |-> validate(DefaultValidation, translatedText, sourceUnit),
                before |-> LedgerSnapshot]
    /\ UNCHANGED <<ledgerVars, compilerVars, ops>>

OMarkAsManualOverride(k, l, th) ==
    /\ sync_status' = markAsManualOverride(sync_status, k, l, th)
    /\ last' = [op |-> "markAsManualOverride", keyPath |-> k, langCode |-> l,
                targetHash |-> th, before |-> LedgerSnapshot]
    /\ UNCHANGED <<source_hashes, run_history, compilerVars, ops>>

\* the one-unit lists and one list over both keys
PlanInputs ==
    {units \in UnitLists : Len(units) = 1}
        \cup {<<createSourceUnit("greeting", <<"Hello">>),
                createSourceUnit("nav.home", <<"Hello">>)>>}

ReadOnlyNext ==
    \/ \E k \in Keys : FUpdateSourceHash(k, computeHash(<<"Hello">>))
    \/ \E k \in Keys, l \in Langs, st \in FailedStatuses : FUpdateSyncStatus(k, l, st)
    \/ \E units \in PlanInputs, langs \in LanguageLists : OCreatePlan(units, langs)
    \/ \E k \in Keys, l \in Langs, h \in {PlannerTargetHash, computeHash(<<"Salut">>)} :
           OIsManualOverride(k, l, h)
    \/ \E text \in ProviderTexts :
           OValidate(text, createSourceUnit("greeting", <<"Hello", " ", "{name}">>))
    \/ \E k \in Keys, l \in Langs : OMarkAsManualOverride(k, l, PlannerTargetHash)

SpecReadOnly == LedgerInit /\ [][ReadOnlyNext]_vars

ReadOnlyOps == {"createPlan", "isManualOverride", "validate"}

OtherRows(ss, k, l) == {r \in ss : ~(r.key_path = k /\ r.lang_code = l)}

\* C35: createPlan, isManualOverride and validate leave source_hashes,
\* sync_status and run_history as they were; markAsManualOverride, the planner
\* module's one write, changes the row of its (keyPath, lang) pair and no other.
C35_PlannerReadOnly ==
    /\ last.op \in ReadOnlyOps => LedgerUnchangedBy(last)
    /\ last.op = "markAsManualOverride" =>
           /\ source_hashes = last.before.source_hashes
           /\ run_history = last.before.run_history
           /\ OtherRows(sync_status, last.keyPath, last.langCode)
                  = OtherRows(last.before.sync_status, last.keyPath, last.langCode)
           /\ RowsOf(sync_status, last.keyPath, last.langCode)
                  = {StatusRow(last.keyPath, last.langCode, last.targetHash, "MANUAL", None, None)}

C35_Witness ==
    /\ last.op = "markAsManualOverride"
    /\ last.keyPath = "greeting"
    /\ last.langCode = "fr"
    /\ StatusOf(last.before.sync_status, "greeting", "fr") = "CLEAN"
    /\ StatusOf(sync_status, "greeting", "de") = "FAILED"
    /\ StatusOf(sync_status, "nav.home", "fr") = "CLEAN"
    /\ source_hashes # {}

-----------------------------------------------------------------------------
\* what a sync run counts against what it leaves in the ledger

\* the pairs a returned run counted in failedUnits
CountedFailed(rec) == rec.rejected \cup rec.aborted

\* C36: every pair a sync run counted in failedUnits, for a rejected result or
\* for an error of its batch's provider call or file write, has status FAILED
\* when the run returns.
C36_CountedFailedIsFailed ==
    (last.op = "sync" /\ ~last.threw) =>
        \A p \in CountedFailed(last) : StatusOf(sync_status, p[1], p[2]) = "FAILED"

\* C37: a sync run that processed batches returns translatedUnits + failedUnits
\* = the plan's totalUnits, every planned pair being counted once, also when a
\* batch raises an error after some of its units were committed.
C37_EveryPairCountedOnce ==
    (last.op = "sync" /\ ~last.threw /\ Len(last.plan.batches) > 0) =>
        last.ret.translatedUnits + last.ret.failedUnits = last.plan.totalUnits

\* C38: the skippedUnits a sync run returns is never negative, several target
\* languages translated in one run included.
C38_SkippedUnitsNotNegative ==
    (last.op = "sync" /\ ~last.threw) => last.ret.skippedUnits >= 0

-----------------------------------------------------------------------------
\* BaseLLMProvider.retryWithBackoff: fn is called, and called again after a
\* delay while it fails and attempts are left.  `outcomes` lists what the
\* invocations of fn did, in order.

MaxConfiguredRetries == 2
DefaultMaxRetries == 3
BackoffBaseMs == 1000

\* config.maxRetries, None when the configuration leaves it out
MaxRetriesArgs == {None} \cup {Some(n) : n \in 0..MaxConfiguredRetries}

\* constructor: this.maxRetries = config.maxRetries ?? 3
maxRetriesOf(configured) == IF configured = None THEN DefaultMaxRetries ELSE configured[1]

FnValues == {"v1", "v2"}
FnErrors == {"e1", "e2"}

\* mutant: one more attempt is granted
attemptsExhausted_late(attempt, maxRetries) == attempt > maxRetries

\* if (attempt >= this.maxRetries) throw error
attemptsExhausted(attempt, maxRetries) == attempt >= maxRetries

\* Math.pow(2, attempt) * 1000
backoffDelay(attempt) == (2 ^ attempt) * BackoffBaseMs

BackoffLocals(maxRetries, attempt, outcomes, delay) ==
    [mode |-> "backoff", maxRetries |-> maxRetries, attempt |-> attempt,
     outcomes |-> outcomes, delay |-> delay]

\* retryWithBackoff(fn) is called, attempt = 0
BCall(configured) ==
    /\ pc = "idle"
    /\ pc' = "fn"
    /\ run' = BackoffLocals(maxRetriesOf(configured), 0, <<>>, 0)
    /\ last' = [op |-> "retryWithBackoffCalled"]
    /\ UNCHANGED <<ledgerVars, targetFiles, sourceUnits, pre, sent, wrote, ops>>

\* await fn() resolves: its value is returned
BFnResolves(v) ==
    /\ pc = "fn"
    /\ pc' = "idle"
    /\ run' = NoRun
    /\ last' = [op |-> "retryWithBackoff", threw |-> FALSE, value |-> v,
                maxRetries |-> run.maxRetries,
                outcomes |-> Append(run.outcomes, <<"resolved", v>>)]
    /\ UNCHANGED <<ledgerVars, targetFiles, sourceUnits, pre, sent, wrote, ops>>

\* await fn() rejects: rethrow when the attempts are used up, else wait
BFnRejects(e) ==
    /\ pc = "fn"
    /\ IF attemptsExhausted(run.attempt, run.maxRetries)
       THEN /\ pc' = "idle"
            /\ run' = NoRun
            /\ last' = [op |-> "retryWithBackoff", threw |-> TRUE, value |-> e,
                        maxRetries |-> run.maxRetries,
                        outcomes |-> Append(run.outcomes, <<"rejected", e>>)]
       ELSE /\ pc' = "sleep"
            /\ run' = [run EXCEPT !.outcomes = Append(@, <<"rejected", e>>),
                                  !.delay = backoffDelay(run.attempt)]
            /\ last' = [op |-> "fnRejected"]
    /\ UNCHANGED <<ledgerVars, targetFiles, sourceUnits, pre, sent, wrote, ops>>

\* the timer fires: return this.retryWithBackoff(fn, attempt + 1)
BWake ==
    /\ pc = "sleep"
    /\ pc' = "fn"
    /\ run' = [run EXCEPT !.attempt = @ + 1]
    /\ last' = [op |-> "backoffElapsed", delay |-> run.delay]
    /\ UNCHANGED <<ledgerVars, targetFiles, sourceUnits, pre, sent, wrote, ops>>

BackoffNext ==
    \/ \E configured \in MaxRetriesArgs : BCall(configured)
    \/ \E v \in FnValues : BFnResolves(v)
    \/ \E e \in FnErrors : BFnRejects(e)
    \/ BWake

SpecBackoff == LedgerInit /\ [][BackoffNext]_vars

\* every invocation of fn terminates, and so does every timer
FnTerminates == (\E v \in FnValues : BFnResolves(v)) \/ (\E e \in FnErrors : BFnRejects(e))

SpecBackoffFair == SpecBackoff /\ WF_vars(FnTerminates) /\ WF_vars(BWake)

Rejected(outcomes, i) == outcomes[i][1] = "rejected"

\* the invocations made so far never exceed maxRetries + 1; a returned value is
\* that of the first invocation that resolved, which is the last one made; an
\* error is rethrown after exactly maxRetries + 1 rejections and is the last one's
BackoffSafe ==
    /\ run.mode = "backoff" =>
           /\ Len(run.outcomes) <= run.maxRetries
           /\ \A i \in 1..Len(run.outcomes) : Rejected(run.outcomes, i)
    /\ last.op = "retryWithBackoff" =>
           LET n == Len(last.outcomes)
           IN  /\ n <= last.maxRetries + 1
               /\ last.outcomes[n][2] = last.value
               /\ \A i \in 1..(n - 1) : Rejected(last.outcomes, i)
               /\ last.threw <=> Rejected(last.outcomes, n)
               /\ last.threw => n = last.maxRetries + 1
               /\ last.maxRetries = 0 => n = 1

\* C39: retryWithBackoff invokes fn at most maxRetries + 1 times, returns the
\* value of the first invocation that succeeds without invoking fn again,
\* rethrows the last error once maxRetries + 1 invocations have failed, invokes
\* fn once when maxRetries = 0, and every call ends when every invocation of fn
\* ends.
C39_RetryBoundedAndTerminates ==
    /\ []BackoffSafe
    /\ (pc # "idle") ~> (pc = "idle")

C39_Witness ==
    /\ last.op = "retryWithBackoff"
    /\ last.threw
    /\ last.maxRetries = 2
    /\ Len(last.outcomes) = 3
    /\ last.outcomes[1][2] # last.value

-----------------------------------------------------------------------------
\* writeTranslations over a target file with nested and conflicting key paths

MergeKeys == {"greeting", "nav", "nav.home", "nav.about", "nav.home.title"}

MergeTexts == { <<"Bonjour">>, <<"Salut">> }

MergeFile == targetFiles[TargetLanguages[1].shortCode]

\* writeTranslations(file, flatToNested({[keyPath]: text}))
WWriteTranslations(keyPath, text) ==
    /\ targetFiles' = [targetFiles EXCEPT ![TargetLanguages[1].shortCode] =
                          writeTranslations(@, flatToNested(keyPath, text))]
    /\ last' = [op |-> "writeTranslations", keyPath |-> keyPath,
                translations |-> flatToNested(keyPath, text), before |-> MergeFile]
    /\ UNCHANGED <<ledgerVars, sourceUnits, pc, run, pre, sent, wrote, ops>>

\* the file is left with content that is not JSON
WCorruptFile ==
    /\ MergeFile # CorruptFile
    /\ targetFiles' = [targetFiles EXCEPT ![TargetLanguages[1].shortCode] = CorruptFile]
    /\ last' = [op |-> "corruptFile"]
    /\ UNCHANGED <<ledgerVars, sourceUnits, pc, run, pre, sent, wrote, ops>>

MergeNext ==
    \/ \E keyPath \in MergeKeys, text \in MergeTexts : WWriteTranslations(keyPath, text)
    \/ WCorruptFile

SpecMerge == LedgerInit /\ [][MergeNext]_vars

\* t sets the key path p
SetBy(t, p) == \E n \in t : n.path = p

\* p lies on the way to, or below, a key path t sets
ConflictsWith(t, p) == \E n \in t : IsProperPrefix(p, n.path) \/ IsProperPrefix(n.path, p)

\* C40 as stated: after writeTranslations(file, t) every key path t sets has its
\* new value and every key path of the existing file that t does not set keeps
\* its value.
C40_MergeKeepsAllOthers ==
    last.op = "writeTranslations" =>
        /\ last.translations \subseteq MergeFile
        /\ \A e \in readExisting(last.before) :
               ~SetBy(last.translations, e.path) => e \in MergeFile

\* C40: after writeTranslations(file, t) every key path t sets has its new
\* value, and every key path of the existing file that t neither sets nor
\* conflicts with (as a string on the way to a key of t, or as a key below one)
\* keeps its value, also below a parent object both share.
C40_MergeKeepsUnrelated ==
    last.op = "writeTranslations" =>
        /\ last.translations \subseteq MergeFile
        /\ \A e \in readExisting(last.before) :
               (~SetBy(last.translations, e.path) /\ ~ConflictsWith(last.translations, e.path))
                   => e \in MergeFile

C40_Witness ==
    /\ last.op = "writeTranslations"
    /\ last.keyPath = "nav.about"
    /\ \E e \in last.before : e.path = <<"nav", "home", "title">> /\ e \in MergeFile
    /\ \E e \in last.before : e.path = <<"greeting">> /\ e \in MergeFile
    /\ \E e \in last.before : e.path = <<"nav", "about">> /\ e \notin MergeFile

====
